---- MODULE Spec2Model ----
(***************************************************************************)
(* Model of the resume-processing helpers of backend1/app/helpers/         *)
(* resume_helper.py: the language normalizer, the ATS scorer, the strict   *)
(* heading-scoped extraction and the technical-skill extractor.            *)
(*                                                                         *)
(* A Python str is a sequence of one-character strings, so that regular    *)
(* expressions, substring tests, case conversion and splitting are         *)
(* computed character by character.  Characters outside ASCII are named    *)
(* ("BULLET" is U+2022, "MIDDOT" is U+00B7).                               *)
(* A Python value is a tagged record: [t |-> "none"], [t |-> "str", v],    *)
(* [t |-> "int", v], [t |-> "bool", v], [t |-> "float", v] (its literal),   *)
(* [t |-> "list", v] (a sequence of values) and [t |-> "dict", v] (a       *)
(* function from keys to values).                                          *)
(* A call either returns a value or raises: [raised, exc] / [raised, val]. *)
(* Scores are held in thousandths of a point (20 points = 20000).          *)
(***************************************************************************)
EXTENDS Integers, Sequences, FiniteSets, TLC

VARIABLES
    op,      \* the function that is called
    args,    \* the arguments of the call
    pc,      \* "call" while the call is pending, "done" once it has ended
    ret,     \* its outcome: a returned value or a raised exception
    locals   \* the local variables of the call the claims speak about

vars == <<op, args, pc, ret, locals>>

(***************************************************************************)
(* Characters                                                              *)
(***************************************************************************)
LowerLetters ==
    <<"a","b","c","d","e","f","g","h","i","j","k","l","m",
      "n","o","p","q","r","s","t","u","v","w","x","y","z">>

UpperLetters ==
    <<"A","B","C","D","E","F","G","H","I","J","K","L","M",
      "N","O","P","Q","R","S","T","U","V","W","X","Y","Z">>

Range(s) == {s[i] : i \in DOMAIN s}

LowerSet == Range(LowerLetters)

UpperSet == Range(UpperLetters)

DigitSet == {"0","1","2","3","4","5","6","7","8","9"}

ToLowerMap == [c \in UpperSet |-> LowerLetters[CHOOSE i \in 1..26 : UpperLetters[i] = c]]

ToUpperMap == [c \in LowerSet |-> UpperLetters[CHOOSE i \in 1..26 : LowerLetters[i] = c]]

\* str.lower() / str.upper() on one character
LowerChar(c) == IF c \in UpperSet THEN ToLowerMap[c] ELSE c

UpperChar(c) == IF c \in LowerSet THEN ToUpperMap[c] ELSE c

\* the regex classes \s, \d and \w
IsSpace(c) == c \in {" ", "\n", "\t", "\r"}

IsDigit(c) == c \in DigitSet

IsWordChar(c) == c \in LowerSet \/ c \in UpperSet \/ c \in DigitSet \/ c = "_"

(***************************************************************************)
(* Strings                                                                 *)
(***************************************************************************)
\* the one element of a set of one element; {e(x) : x \in {v}} computes v once
\* for all the places of e that use it
Bind(S) == CHOOSE x \in S : TRUE

Min(S) == Bind({ CHOOSE x \in T : \A y \in T : x <= y : T \in {S} })

Max(S) == Bind({ CHOOSE x \in T : \A y \in T : x >= y : T \in {S} })

\* the sequence f[1], ..., f[n], held the way TLC holds a tuple
AsSeq(f, n) == SubSeq(f, 1, n)

\* str.lower() and str.upper()
Lower(s) == AsSeq([i \in 1..Len(s) |-> LowerChar(s[i])], Len(s))

Upper(s) == AsSeq([i \in 1..Len(s) |-> UpperChar(s[i])], Len(s))

\* str.capitalize(): first character upper-cased, the rest lower-cased
Capitalize(s) ==
    AsSeq([i \in 1..Len(s) |-> IF i = 1 THEN UpperChar(s[i]) ELSE LowerChar(s[i])], Len(s))

\* s * n
Rep(s, n) == AsSeq([i \in 1..(n * Len(s)) |-> s[((i - 1) % Len(s)) + 1]], n * Len(s))

RECURSIVE Concat(_)
\* "".join(parts)
Concat(parts) == IF parts = <<>> THEN <<>> ELSE Head(parts) \o Concat(Tail(parts))

\* w occurs in s at index i
MatchAt(s, i, w) ==
    /\ i >= 1
    /\ i + Len(w) - 1 <= Len(s)
    /\ \A j \in 1..Len(w) : s[i + j - 1] = w[j]

\* w in s
Contains(s, w) == \E i \in 1..(Len(s) - Len(w) + 1) : MatchAt(s, i, w)

\* the regex assertion \b just before index i (i = Len(s) + 1: at the end)
WordBoundary(s, i) ==
    LET before == i >= 2 /\ i - 1 <= Len(s) /\ IsWordChar(s[i - 1])
        after == i >= 1 /\ i <= Len(s) /\ IsWordChar(s[i])
    IN before # after

RECURSIVE DigitRun(_, _)
\* the length of the run of digits (of \d+) starting at index i
DigitRun(s, i) == IF i > Len(s) \/ ~IsDigit(s[i]) THEN 0 ELSE 1 + DigitRun(s, i + 1)

RECURSIVE SpaceRun(_, _)
\* the length of the run of whitespace (of \s*) starting at index i
SpaceRun(s, i) == IF i > Len(s) \/ ~IsSpace(s[i]) THEN 0 ELSE 1 + SpaceRun(s, i + 1)

RECURSIVE FindAllFrom(_, _)
\* re.findall / re.finditer: the leftmost non-overlapping matches.  m maps each
\* index where the pattern matches to the index just after that match.
FindAllFrom(m, from) ==
    LET later == {s \in DOMAIN m : s >= from} IN
    IF later = {} THEN <<>>
    ELSE LET s == Min(later) IN <<s>> \o FindAllFrom(m, m[s])

\* len(s.split()): the number of maximal runs of non-whitespace
SplitCount(s) ==
    Cardinality({i \in 1..Len(s) : ~IsSpace(s[i]) /\ (i = 1 \/ IsSpace(s[i - 1]))})

\* len(max(s.split("\n"), key=len)) > n: some line holds more than n characters
HasLineLongerThan(s, n) ==
    \E a \in {0} \cup {j \in 1..Len(s) : s[j] = "\n"} :
        /\ a + n + 1 <= Len(s)
        /\ \A j \in (a + 1)..(a + n + 1) : s[j] # "\n"

(***************************************************************************)
(* Python values and call outcomes                                         *)
(***************************************************************************)
PyNone == [t |-> "none"]

PyStr(s) == [t |-> "str", v |-> s]

PyInt(n) == [t |-> "int", v |-> n]

PyList(xs) == [t |-> "list", v |-> xs]

PyDict(f) == [t |-> "dict", v |-> f]

EmptyDict == PyDict(<<>>)

\* bool(v)
Truthy(x) ==
    CASE x.t = "none" -> FALSE
      [] x.t = "str" -> Len(x.v) > 0
      [] x.t = "int" -> x.v # 0
      [] x.t = "list" -> Len(x.v) > 0
      [] x.t = "dict" -> DOMAIN x.v # {}
      [] x.t = "bool" -> x.v
      [] x.t = "bytes" -> Len(x.v) > 0
      [] x.t \in {"objectid", "datetime"} -> TRUE

\* d.get(k)
DictGet(d, k) == IF k \in DOMAIN d.v THEN d.v[k] ELSE PyNone

Return(x) == [raised |-> FALSE, val |-> x]

Raise(e) == [raised |-> TRUE, exc |-> e]

(***************************************************************************)
(* calculate_ats_score (resume_helper.py:85-170)                           *)
(***************************************************************************)
Points(n) == n * 1000

\* the alternatives of the action_verbs pattern, in order
action_verbs ==
    << <<"d","e","v","e","l","o","p","e","d">>, <<"b","u","i","l","t">>,
       <<"d","e","s","i","g","n","e","d">>, <<"i","m","p","l","e","m","e","n","t","e","d">>,
       <<"m","a","n","a","g","e","d">>, <<"o","p","t","i","m","i","z","e","d">>,
       <<"i","n","c","r","e","a","s","e","d">>, <<"r","e","d","u","c","e","d">>, <<"l","e","d">>,
       <<"c","o","l","l","a","b","o","r","a","t","e","d">>, <<"d","e","p","l","o","y","e","d">>,
       <<"c","r","e","a","t","e","d">>, <<"t","r","a","i","n","e","d">>,
       <<"i","m","p","r","o","v","e","d">>, <<"t","e","s","t","e","d">>,
       <<"a","n","a","l","y","z","e","d">>, <<"a","u","t","o","m","a","t","e","d">>,
       <<"i","n","t","e","g","r","a","t","e","d">>, <<"s","t","r","e","a","m","l","i","n","e","d">>,
       <<"o","r","c","h","e","s","t","r","a","t","e","d">>, <<"d","e","b","u","g","g","e","d">>,
       <<"r","e","s","o","l","v","e","d">>, <<"s","c","a","l","e","d">>,
       <<"a","r","c","h","i","t","e","c","t","e","d">> >>

\* the units of the second and the fourth alternative of metrics_regex
metric_units ==
    << <<"u","s","e","r","s">>, <<"c","l","i","e","n","t","s">>,
       <<"p","r","o","j","e","c","t","s">>, <<"y","e","a","r","s">>, <<"m","o","n","t","h","s">> >>

metric_multipliers ==
    << <<"x">>, <<"t","i","m","e","s">> >>

tech_keywords ==
    << <<"p","y","t","h","o","n">>, <<"j","a","v","a">>, <<"c","+","+">>, <<"c","#">>, <<"g","o">>,
       <<"n","o","d","e">>, <<"r","e","a","c","t">>, <<"a","n","g","u","l","a","r">>,
       <<"v","u","e">>, <<"j","a","v","a","s","c","r","i","p","t">>,
       <<"t","y","p","e","s","c","r","i","p","t">>, <<"m","o","n","g","o","d","b">>,
       <<"m","y","s","q","l">>, <<"p","o","s","t","g","r","e","s">>, <<"s","q","l">>,
       <<"r","e","d","i","s">>, <<"a","w","s">>, <<"a","z","u","r","e">>, <<"g","c","p">>,
       <<"d","o","c","k","e","r">>, <<"k","u","b","e","r","n","e","t","e","s">>,
       <<"t","e","r","r","a","f","o","r","m">>, <<"t","e","n","s","o","r","f","l","o","w">>,
       <<"p","y","t","o","r","c","h">>, <<"s","c","i","k","i","t","-","l","e","a","r","n">>,
       <<"p","a","n","d","a","s">>, <<"n","u","m","p","y">>, <<"f","a","s","t","a","p","i">>,
       <<"d","j","a","n","g","o">>, <<"f","l","a","s","k">>, <<"s","p","r","i","n","g">>,
       <<"e","x","p","r","e","s","s">>, <<"r","e","s","t">>, <<"g","r","a","p","h","q","l">>,
       <<"m","i","c","r","o","s","e","r","v","i","c","e","s">> >>

tools_keywords ==
    << <<"g","i","t">>, <<"g","i","t","h","u","b">>, <<"g","i","t","l","a","b">>,
       <<"j","i","r","a">>, <<"j","e","n","k","i","n","s">>, <<"f","i","g","m","a">>,
       <<"l","i","n","u","x">>, <<"b","a","s","h">>, <<"s","h","e","l","l">>,
       <<"t","a","b","l","e","a","u">>, <<"p","o","w","e","r"," ","b","i">>,
       <<"e","x","c","e","l">>, <<"v","i","s","u","a","l"," ","s","t","u","d","i","o">>,
       <<"v","s","c","o","d","e">>, <<"c","o","l","a","b">> >>

soft_skills ==
    << <<"l","e","a","d","e","r","s","h","i","p">>,
       <<"c","o","m","m","u","n","i","c","a","t","i","o","n">>, <<"t","e","a","m","w","o","r","k">>,
       <<"p","r","o","b","l","e","m"," ","s","o","l","v","i","n","g">>,
       <<"o","w","n","e","r","s","h","i","p">>, <<"a","d","a","p","t","a","b","i","l","i","t","y">> >>

cert_keywords ==
    << <<"c","e","r","t","i","f","i","e","d">>, <<"c","e","r","t","i","f","i","c","a","t","e">>,
       <<"a","w","s">>, <<"a","z","u","r","e">>, <<"g","c","p">>, <<"o","r","a","c","l","e">>,
       <<"p","m","p">>, <<"s","c","r","u","m">>, <<"c","i","s","c","o">> >>

required_sections == <<"experience", "education", "skills", "projects">>

\* the alternatives of r"\.(png|jpg|jpeg|svg)" and of r"(linkedin\.com|github\.com)"
image_extensions ==
    << <<".","p","n","g">>, <<".","j","p","g">>, <<".","j","p","e","g">>, <<".","s","v","g">> >>

profile_hosts ==
    << <<"l","i","n","k","e","d","i","n",".","c","o","m">>,
       <<"g","i","t","h","u","b",".","c","o","m">> >>

\* sum(1 for kw in keywords if kw in text_lower)
KeywordHits(keywords, text_lower) ==
    Cardinality({k \in DOMAIN keywords : Contains(text_lower, keywords[k])})

\* [a-z0-9._%+-] and [a-z0-9.-] of the e-mail pattern
IsEmailLocalChar(c) == c \in LowerSet \/ c \in DigitSet \/ c \in {".", "_", "%", "+", "-"}

IsEmailDomainChar(c) == c \in LowerSet \/ c \in DigitSet \/ c \in {".", "-"}

\* re.search(r"[a-z0-9._%+-]+@[a-z0-9.-]+\.\w+", text_lower)
HasEmail(text_lower) ==
    \E p \in 2..Len(text_lower) :
        /\ text_lower[p] = "@"
        /\ IsEmailLocalChar(text_lower[p - 1])
        /\ \E j \in (p + 2)..(Len(text_lower) - 1) :
              /\ text_lower[j] = "."
              /\ IsWordChar(text_lower[j + 1])
              /\ \A k \in (p + 1)..(j - 1) : IsEmailDomainChar(text_lower[k])

\* re.search(r"(linkedin\.com|github\.com)", text_lower)
HasProfileLink(text_lower) == \E k \in DOMAIN profile_hosts : Contains(text_lower, profile_hosts[k])

\* re.search(r"\.(png|jpg|jpeg|svg)", text_lower)
HasImageName(text_lower) ==
    \E k \in DOMAIN image_extensions : Contains(text_lower, image_extensions[k])

IsBulletChar(c) == c \in {"-", "BULLET", "*"}

\* the matches of r"(\n\s*[-•*])": a newline, whitespace, a bullet marker
BulletMatches(text) ==
    [i \in {i \in 1..Len(text) :
              /\ text[i] = "\n"
              /\ i + 1 + SpaceRun(text, i + 1) <= Len(text)
              /\ IsBulletChar(text[i + 1 + SpaceRun(text, i + 1)])}
       |-> i + 2 + SpaceRun(text, i + 1)]

\* the index after the match of an alternation of literal words at i, 0 if none
\* (the first alternative, in order, after which the pattern's closing \b holds)
WordAltEnd(s, i, alts) ==
    LET ok == {k \in DOMAIN alts : MatchAt(s, i, alts[k]) /\ WordBoundary(s, i + Len(alts[k]))}
    IN IF ok = {} THEN 0 ELSE i + Len(alts[Min(ok)])

\* the matches of action_verbs: \b(developed|built|...)\b
ActionMatches(text_lower) ==
    [i \in {i \in 1..Len(text_lower) :
              WordBoundary(text_lower, i) /\ WordAltEnd(text_lower, i, action_verbs) > 0}
       |-> WordAltEnd(text_lower, i, action_verbs)]

\* the index after the match of metrics_regex at i, 0 if it does not match there:
\* \b(\d+%|\d+\s+(users|clients|projects|years|months)|\$\d+|\d+\s+(x|times))\b
MetricEnd(s, i) ==
    LET d == DigitRun(s, i)
        w == SpaceRun(s, i + d)
        percent == IF d > 0 /\ i + d <= Len(s) /\ s[i + d] = "%" /\ WordBoundary(s, i + d + 1)
                   THEN i + d + 1 ELSE 0
        unit == IF d > 0 /\ w > 0 THEN WordAltEnd(s, i + d + w, metric_units) ELSE 0
        d2 == DigitRun(s, i + 1)
        dollar == IF s[i] = "$" /\ d2 > 0 /\ WordBoundary(s, i + 1 + d2)
                  THEN i + 1 + d2 ELSE 0
        mult == IF d > 0 /\ w > 0 THEN WordAltEnd(s, i + d + w, metric_multipliers) ELSE 0
    IN IF ~WordBoundary(s, i) THEN 0
       ELSE IF percent > 0 THEN percent
       ELSE IF unit > 0 THEN unit
       ELSE IF dollar > 0 THEN dollar
       ELSE mult

MetricMatches(text_lower) ==
    [i \in {i \in 1..Len(text_lower) : MetricEnd(text_lower, i) > 0}
       |-> MetricEnd(text_lower, i)]

\* 1: section coverage (max 20)
section_score(data) ==
    Points(5) * Cardinality({k \in DOMAIN required_sections :
                               Truthy(DictGet(data, required_sections[k]))})

\* 2: contact info (max 10)
contact_score(email, profile_link) ==
    (IF email THEN Points(5) ELSE 0) + (IF profile_link THEN Points(5) ELSE 0)

\* 3: word count (max 5)
wc_score(word_count) ==
    IF 500 <= word_count /\ word_count <= 1200 THEN Points(5)
    ELSE IF word_count >= 300 THEN Points(3) ELSE 0

\* 4: bullet points (max 10)
bp_score(bullet_count) ==
    IF bullet_count >= 10 THEN Points(10)
    ELSE IF bullet_count >= 4 THEN Points(5) ELSE 0

\* min(a, b) and max(a, b)
PyMin(a, b) == IF a <= b THEN a ELSE b

PyMax(a, b) == IF a >= b THEN a ELSE b

\* achievement_score counting a metric once instead of twice
achievement_score_single(action_count, metric_count) ==
    PyMin(Points(action_count) * 1 + Points(metric_count) * 1, Points(20))

\* 5: action verbs + metrics (max 20)
achievement_score(action_count, metric_count) ==
    PyMin(Points(action_count) * 1 + Points(metric_count) * 2, Points(20))

\* skill_score without the cap at 30
skill_score_no_cap(tech_match, tools_match) == (tech_match * 1500) + (tools_match * 1000)

\* 6: technical skills + tools (max 30); tech_match * 1.5 is 1500 thousandths each
skill_score(tech_match, tools_match) ==
    PyMin((tech_match * 1500) + (tools_match * 1000), Points(30))

\* 7: soft skills + certifications (max 5)
soft_score(soft_hits) == PyMin(Points(soft_hits), Points(2))

cert_score(cert_hits) == PyMin(Points(cert_hits), Points(3))

\* 8: formatting penalty
penalty(text_lower, text) ==
    (IF HasImageName(text_lower) THEN 2 ELSE 0)
    + (IF HasLineLongerThan(text, 150) THEN 1 ELSE 0)

RECURSIVE SumOver(_, _)
SumOver(f, keys) ==
    IF keys = {} THEN 0
    ELSE LET k == CHOOSE k \in keys : TRUE IN f[k] + SumOver(f, keys \ {k})

\* sum(d.values())
SumValues(d) == SumOver(d, DOMAIN d)

\* Round2 rounding to whole points instead of hundredths
Round2_whole(m) == 1000 * ((m + 500) \div 1000)

\* round(x, 2) of a score held in thousandths: to the nearest hundredth, ties to even
Round2(m) ==
    LET q == m \div 10
        r == m % 10
    IN 10 * (IF r > 5 \/ (r = 5 /\ q % 2 = 1) THEN q + 1 ELSE q)

\* total_score without the floor at 0
total_score_no_floor(details) == PyMin(SumValues(details), Points(100))

\* lines 159-161: the sum of the entries so far, capped at 100 and floored at 0
total_score(details) == PyMax(PyMin(SumValues(details), Points(100)), 0)

\* the locals of a call that the category entries are computed from
ats_locals(text_lower, text) ==
    [ word_count |-> SplitCount(text),
      bullet_count |-> Len(FindAllFrom(BulletMatches(text), 1)),
      action_count |-> Len(FindAllFrom(ActionMatches(text_lower), 1)),
      metric_count |-> Len(FindAllFrom(MetricMatches(text_lower), 1)),
      tech_match |-> KeywordHits(tech_keywords, text_lower),
      tools_match |-> KeywordHits(tools_keywords, text_lower),
      email |-> HasEmail(text_lower),
      profile_link |-> HasProfileLink(text_lower),
      soft_hits |-> KeywordHits(soft_skills, text_lower),
      cert_hits |-> KeywordHits(cert_keywords, text_lower),
      penalty |-> penalty(text_lower, text) ]

\* the eight category entries of score_details, lines 110-157
score_details(data, l) ==
    ("Section Coverage" :> PyMin(section_score(data), Points(20)))
    @@ ("Contact Info" :> PyMin(contact_score(l.email, l.profile_link), Points(10)))
    @@ ("Word Count" :> wc_score(l.word_count))
    @@ ("Bullet Points" :> bp_score(l.bullet_count))
    @@ ("Action + Achievements" :> achievement_score(l.action_count, l.metric_count))
    @@ ("Skills Strength" :> skill_score(l.tech_match, l.tools_match))
    @@ ("Soft Skills & Certs" :> soft_score(l.soft_hits) + cert_score(l.cert_hits))
    @@ ("Formatting Penalty" :> 0 - PyMin(Points(l.penalty), Points(5)))

\* calculate_ats_score(data, text, normalized_languages), text a str or None:
\* the outcome of the call and its locals
calculate_ats_score(data, text, normalized_languages) ==
    LET text_lower == Lower(IF Truthy(text) THEN text.v ELSE <<>>)   \* (text or "").lower()
    IN IF text.t # "str"
       THEN [out |-> Raise("AttributeError"), locals |-> <<>>]   \* line 124: text.split()
       ELSE LET l == ats_locals(text_lower, text.v)
                details == score_details(data, l)
                total == Round2(total_score(details))
            IN [ out |-> Return([ ats_breakdown |-> details @@ ("Total ATS Score" :> total),
                                  ats_score |-> total,
                                  word_count |-> l.word_count,
                                  languages |-> normalized_languages ]),
                 locals |-> l ]

(***************************************************************************)
(* normalize_languages (resume_helper.py:22-56)                            *)
(***************************************************************************)
language_patterns ==
    << <<"e","n","g","l","i","s","h">>, <<"t","a","m","i","l">>, <<"h","i","n","d","i">>,
       <<"t","e","l","u","g","u">>, <<"m","a","l","a","y","a","l","a","m">>,
       <<"k","a","n","n","a","d","a">>, <<"f","r","e","n","c","h">>, <<"g","e","r","m","a","n">>,
       <<"s","p","a","n","i","s","h">>, <<"m","a","r","a","t","h","i">>,
       <<"b","e","n","g","a","l","i">>, <<"p","u","n","j","a","b","i">>,
       <<"g","u","j","a","r","a","t","i">>, <<"u","r","d","u">>, <<"o","r","i","y","a">>,
       <<"n","e","p","a","l","i">> >>

DigitChars == <<"0","1","2","3","4","5","6","7","8","9">>

RECURSIVE IntToStr(_)
\* str(n) of an int n >= 0
IntToStr(n) == IF n < 10 THEN <<DigitChars[n + 1]>> ELSE IntToStr(n \div 10) \o <<DigitChars[(n % 10) + 1]>>

RECURSIVE Join(_, _)
\* sep.join(parts)
Join(sep, parts) ==
    IF parts = <<>> THEN <<>>
    ELSE IF Len(parts) = 1 THEN parts[1]
    ELSE parts[1] \o sep \o Join(sep, Tail(parts))

RECURSIVE PyRepr(_)
\* repr(x): a str in quotes, a list in brackets, an int as str(x)
PyRepr(x) ==
    CASE x.t = "none" -> <<"N","o","n","e">>
      [] x.t = "int" -> IntToStr(x.v)
      [] x.t = "str" -> <<"'">> \o x.v \o <<"'">>
      [] x.t = "list" -> <<"[">> \o Join(<<",", " ">>, [i \in DOMAIN x.v |-> PyRepr(x.v[i])]) \o <<"]">>

\* str(x)
PyToStr(x) == IF x.t = "str" THEN x.v ELSE PyRepr(x)

\* re.sub(r"\s+", "", s)
RemoveSpaces(s) == SelectSeq(s, LAMBDA c : ~IsSpace(c))

\* LanguageEnd without the \b before the name
LanguageEnd_no_boundary(s, i) == WordAltEnd(s, i, language_patterns)

\* the index after the language name matched at i by \b(english|tamil|...)\b, 0 if none
LanguageEnd(s, i) == IF WordBoundary(s, i) THEN WordAltEnd(s, i, language_patterns) ELSE 0

\* the index of the ")" that closes the group (\([^)]+\)) opening at q, 0 if the
\* group does not match there
ProficiencyClose(s, q) ==
    LET closes == {r \in (q + 1)..Len(s) : s[r] = ")"} IN
    IF q <= Len(s) /\ s[q] = "(" /\ closes # {} /\ Min(closes) >= q + 2
    THEN Min(closes) ELSE 0

\* the match of pattern at i: [lang, prof, end], end the index after the match
LanguageMatch(s, i) ==
    LET e == LanguageEnd(s, i)
        q == e + SpaceRun(s, e)
        r == ProficiencyClose(s, q)
    IN [ lang |-> SubSeq(s, i, e - 1),
         prof |-> IF r > 0 THEN SubSeq(s, q, r) ELSE <<>>,
         end |-> IF r > 0 THEN r + 1 ELSE q ]

\* re.findall(pattern, text_lower): the (lang, prof) pairs, in order
LanguageFindAll(text_lower) ==
    LET m == [i \in {i \in 1..Len(text_lower) : LanguageEnd(text_lower, i) > 0}
                |-> LanguageMatch(text_lower, i).end]
        starts == FindAllFrom(m, 1)
    IN [k \in DOMAIN starts |-> LanguageMatch(text_lower, starts[k])]

\* RenderLanguage keeping the whitespace of the proficiency
RenderLanguage_spaces(lang, prof) ==
    IF prof # <<>> THEN Capitalize(lang) \o <<" ">> \o Upper(prof) ELSE Capitalize(lang)

\* lines 46-51: the rendered entry of one match
RenderLanguage(lang, prof) ==
    LET lang_clean == Capitalize(lang) IN
    IF prof # <<>>
    THEN lang_clean \o <<" ">> \o RemoveSpaces(Upper(prof))
    ELSE lang_clean

\* AppendNew without the membership test
AppendNew_always(results, result) == Append(results, result)

\* lines 53-54: if result not in results: results.append(result)
AppendNew(results, result) ==
    IF \E k \in DOMAIN results : results[k] = result THEN results ELSE Append(results, result)

RECURSIVE CollectLanguages(_, _)
\* lines 44-54: the loop over the matches
CollectLanguages(matches, results) ==
    IF matches = <<>> THEN results
    ELSE CollectLanguages(Tail(matches),
                          AppendNew(results, RenderLanguage(Head(matches).lang, Head(matches).prof)))

\* lines 29-30: " ".join(str(t) for t in text if t)
JoinTruthy(xs) ==
    LET kept == SelectSeq(xs, Truthy) IN Join(<<" ">>, [i \in DOMAIN kept |-> PyToStr(kept[i])])

\* normalize_languages(text): returns a sequence of strings, or raises
normalize_languages(text) ==
    IF ~Truthy(text) THEN Return(<<>>)
    ELSE LET joined == IF text.t = "list" THEN PyStr(JoinTruthy(text.v)) ELSE text IN
         IF joined.t # "str"
         THEN Raise("AttributeError")                       \* line 32: text.lower()
         ELSE Return(CollectLanguages(LanguageFindAll(Lower(joined.v)), <<>>))

(***************************************************************************)
(* The language step of process_resume_file (lines 762-771, 797-800) and   *)
(* of extract_resume_data (lines 863-871)                                  *)
(***************************************************************************)
\* str.strip()
Strip(s) ==
    Bind({ IF keep = {} THEN <<>> ELSE SubSeq(s, Min(keep), Max(keep))
         : keep \in {{i \in 1..Len(s) : ~IsSpace(s[i])}} })

\* the length of the separator of r"[,;/]| and " at index i, 0 if none starts there
LanguageSeparator(s, i) ==
    IF s[i] \in {",", ";", "/"} THEN 1
    ELSE IF MatchAt(s, i, <<" ","a","n","d"," ">>) THEN 5 ELSE 0

\* re.split(r"[,;/]| and ", s)
SplitLanguages(s) ==
    LET m == [i \in {i \in 1..Len(s) : LanguageSeparator(s, i) > 0} |-> i + LanguageSeparator(s, i)]
        cuts == FindAllFrom(m, 1)
    IN [k \in 1..(Len(cuts) + 1) |->
           SubSeq(s, IF k = 1 THEN 1 ELSE m[cuts[k - 1]],
                     IF k > Len(cuts) THEN Len(s) ELSE cuts[k] - 1)]

\* whether iterating x raises TypeError ('int' / 'NoneType' object is not iterable)
NotIterable(x) == x.t \in {"none", "int"}

\* the items "for lang in raw_langs" visits: the elements of a list, the characters
\* of a str
IterItems(x) == IF x.t = "str" THEN [i \in DOMAIN x.v |-> PyStr(<<x.v[i]>>)] ELSE x.v

\* the filter "if lang and str(lang).strip()" of the comprehension
KeepLanguage(lang) == Truthy(lang) /\ Strip(PyToStr(lang)) # <<>>

\* lines 764-767 and 864-867: from the model's "languages" field (missing: []) to
\* the normalized languages
language_step(data) ==
    LET field == IF "languages" \in DOMAIN data.v THEN data.v["languages"] ELSE PyList(<<>>)
        raw_langs == IF field.t = "str"
                     THEN PyList([i \in DOMAIN SplitLanguages(field.v) |-> PyStr(SplitLanguages(field.v)[i])])
                     ELSE field
        kept == SelectSeq(IterItems(raw_langs), KeepLanguage)
    IN IF NotIterable(raw_langs) THEN Raise("TypeError")
       ELSE IF \E i \in DOMAIN kept : kept[i].t # "str"
       THEN Raise("AttributeError")                          \* lang.strip() of a non-str
       ELSE normalize_languages(PyList([i \in DOMAIN kept |-> PyStr(Strip(kept[i].v))]))

\* process_resume_file from line 762 on: the exception handler of lines 797-800
\* turns a raise into the error outcome
process_resume_languages(data) ==
    LET step == language_step(data) IN
    IF step.raised THEN Return([error |-> step.exc])
    ELSE Return([languages |-> step.val])

\* extract_resume_data from line 863 on: nothing catches a raise
extract_resume_data_languages(data) ==
    LET step == language_step(data) IN
    IF step.raised THEN step ELSE Return([languages |-> step.val])

(***************************************************************************)
(* The calls of calculate_ats_score that are explored                      *)
(***************************************************************************)
\* pieces of resume text: an action verb, a metric, a bullet line, every technical
\* keyword, every tool keyword, soft skills, certification words, an e-mail
\* address, a profile link, an image file name, one technical keyword
ats_chunks ==
    << <<"d","e","v","e","l","o","p","e","d"," ">>, <<"1","2"," ","u","s","e","r","s"," ">>,
       <<"\n","-"," ">>,
       <<"p","y","t","h","o","n",","," ","j","a","v","a",","," ","c","+","+",","," ","c","#",","," ","g","o",","," ","n","o","d","e",","," ","r","e","a","c","t",","," ","a","n","g","u","l","a","r",","," ","v","u","e",","," ","j","a","v","a","s","c","r","i","p","t",","," ","t","y","p","e","s","c","r","i","p","t",","," ","m","o","n","g","o","d","b",","," ","m","y","s","q","l",","," ","p","o","s","t","g","r","e","s",","," ","s","q","l",","," ","r","e","d","i","s",","," ","a","w","s",","," ","a","z","u","r","e",","," ","g","c","p",","," ","d","o","c","k","e","r",","," ","k","u","b","e","r","n","e","t","e","s",","," ","t","e","r","r","a","f","o","r","m",","," ","t","e","n","s","o","r","f","l","o","w",","," ","p","y","t","o","r","c","h",","," ","s","c","i","k","i","t","-","l","e","a","r","n",","," ","p","a","n","d","a","s",","," ","n","u","m","p","y",","," ","f","a","s","t","a","p","i",","," ","d","j","a","n","g","o",","," ","f","l","a","s","k",","," ","s","p","r","i","n","g",","," ","e","x","p","r","e","s","s",","," ","r","e","s","t",","," ","g","r","a","p","h","q","l",","," ","m","i","c","r","o","s","e","r","v","i","c","e","s"," ">>,
       <<"g","i","t"," ","g","i","t","h","u","b"," ","g","i","t","l","a","b"," ","j","i","r","a"," ","j","e","n","k","i","n","s"," ","f","i","g","m","a"," ","l","i","n","u","x"," ","b","a","s","h"," ","s","h","e","l","l"," ","t","a","b","l","e","a","u"," ","p","o","w","e","r"," ","b","i"," ","e","x","c","e","l"," ","v","i","s","u","a","l"," ","s","t","u","d","i","o"," ","v","s","c","o","d","e"," ","c","o","l","a","b"," ">>,
       <<"l","e","a","d","e","r","s","h","i","p",","," ","t","e","a","m","w","o","r","k",","," ","o","w","n","e","r","s","h","i","p"," ">>,
       <<"c","e","r","t","i","f","i","e","d"," ","s","c","r","u","m"," ","o","r","a","c","l","e"," ","p","m","p"," ">>,
       <<"a","@","b",".","c","o"," ">>, <<"g","i","t","h","u","b",".","c","o","m","/","u"," ">>,
       <<"x",".","p","n","g"," ">>, <<"p","y","t","h","o","n"," ">> >>

MaxChunks == 2

MaxReps == 11

\* the sequences over 1..n of length at most k
SeqsUpTo(n, k) == UNION {[1..m -> 1..n] : m \in 0..k}

\* texts of at most MaxChunks pieces, in any order
ChunkTexts == {Concat([i \in DOMAIN p |-> ats_chunks[p[i]]]) : p \in SeqsUpTo(Len(ats_chunks), MaxChunks)}

\* texts of one countable piece (verb, metric, bullet line) repeated up to MaxReps times
RepeatTexts == {Rep(ats_chunks[c], n) : c \in 1..3, n \in 1..MaxReps}

\* one text with every piece, the countable ones MaxReps times
RichText == Concat([c \in DOMAIN ats_chunks |-> IF c <= 3 THEN Rep(ats_chunks[c], MaxReps) ELSE ats_chunks[c]])

\* word counts around the thresholds 300, 500 and 1200 of the word-count rule
FillCounts == {299, 300, 499, 500, 1200, 1201}

\* long texts: filler words on one line, and RichText after 500 words on a line each
LongTexts == {Rep(<<"w"," ">>, f) : f \in FillCounts} \cup {Rep(<<"w","\n">>, 500) \o RichText}

\* the document of spec.md section 8: 600 words, 12 bullet lines, 5 action verbs,
\* 2 metrics, 10 technical and 3 tool keywords, 1 soft skill, 1 certification word
ExampleResume ==
    <<"j","a","n","e"," ","d","o","e"," ","a","@","b",".","c","o"," ","g","i","t","h","u","b",".","c","o","m","/","j","a","n","e","\n">>
    \o <<"d","e","v","e","l","o","p","e","d"," ","b","u","i","l","t"," ","d","e","s","i","g","n","e","d"," ","l","e","d"," ","t","e","s","t","e","d"," ","a","p","p","s"," ","f","o","r"," ","1","2"," ","u","s","e","r","s"," ","o","v","e","r"," ","3"," ","y","e","a","r","s","\n">>
    \o <<"p","y","t","h","o","n"," ","j","a","v","a"," ","r","e","a","c","t"," ","m","y","s","q","l"," ","d","o","c","k","e","r"," ","r","e","d","i","s"," ","f","l","a","s","k"," ","p","a","n","d","a","s"," ","n","u","m","p","y"," ","l","i","n","u","x"," ">>
    \o <<"t","e","a","m","w","o","r","k"," ","c","e","r","t","i","f","i","e","d","\n">>
    \o Rep(<<"w"," ","w"," ","w"," ","w"," ","w"," ","w"," ","w"," ","w"," ","w"," ","w","\n">>, 52)
    \o <<"w"," ","w"," ","w"," ","w","\n">>
    \o Rep(<<"-"," ","w"," ","w"," ","w","\n">>, 12)

\* values of a section key: absent values, empty and non-empty containers
SectionValues ==
    { PyNone, PyStr(<<>>), PyList(<<>>), PyList(<<PyStr(<<"x">>)>>),
      PyDict([k \in {"technical"} |-> PyList(<<>>)]) }

\* the record with the first n required sections present
RecordWith(n) == PyDict([k \in {required_sections[i] : i \in 1..n} |-> PyList(<<PyStr(<<"x">>)>>)])

\* records with one section key holding each kind of value, and with 0..4 sections
AtsRecords ==
    {PyDict([k \in {key} |-> val]) : key \in Range(required_sections), val \in SectionValues}
    \cup {RecordWith(n) : n \in 0..4}

AtsTextValues ==
    {PyNone} \cup {PyStr(s) : s \in ChunkTexts \cup RepeatTexts \cup LongTexts \cup {ExampleResume}}

\* every record with the absent, the empty, a blank, an image-name and the example
\* text; every text with the record holding all four sections
AtsCalls ==
    {[data |-> d, text |-> t] :
        d \in AtsRecords,
        t \in {PyNone, PyStr(<<>>), PyStr(<<" ">>), PyStr(ats_chunks[10]), PyStr(ExampleResume)}}
    \cup {[data |-> RecordWith(4), text |-> t] : t \in AtsTextValues}

\* a call of calculate_ats_score is pending
InitAts ==
    /\ op = "calculate_ats_score"
    /\ args \in AtsCalls
    /\ pc = "call"
    /\ ret = <<>>
    /\ locals = <<>>

CalculateAtsScore ==
    /\ pc = "call"
    /\ op = "calculate_ats_score"
    /\ LET call == calculate_ats_score(args.data, args.text, PyNone) IN
       /\ ret' = call.out
       /\ locals' = call.locals
    /\ pc' = "done"
    /\ UNCHANGED <<op, args>>

NextAts == CalculateAtsScore

SpecAts == InitAts /\ [][NextAts]_vars

(***************************************************************************)
(* The calls of normalize_languages and of the language steps explored     *)
(***************************************************************************)
\* pieces of language text: two language names, a proficiency, the parentheses, a
\* separator and a letter that joins words
lang_chunks ==
    << <<"E","n","g","l","i","s","h">>, <<"t","a","m","i","l">>,
       <<" ","(","F","l","u","e","n","t",")">>, <<"(">>, <<")">>, <<","," ">>, <<"s">> >>

MaxLangChunks == 3

\* strings of at most MaxLangChunks pieces, in any order
LangChunkTexts ==
    {Concat([i \in DOMAIN p |-> lang_chunks[p[i]]]) : p \in SeqsUpTo(Len(lang_chunks), MaxLangChunks)}

\* the example of spec.md section 8
LangExample == <<"E","n","g","l","i","s","h"," ","(","F","l","u","e","n","t",")",","," ","E","n","g","l","i","s","h"," ","(","F","l","u","e","n","t",")">>

\* a language that reappears with the same, another and no proficiency
LangRepeats == <<"T","a","m","i","l",","," ","E","n","g","l","i","s","h"," ","(","F","l","u","e","n","t",")",","," ","t","a","m","i","l",",","\n","E","N","G","L","I","S","H"," ","("," ","f","l","u","e","n","t"," ",")"," ","e","n","g","l","i","s","h"," ","h","i","n","d","i","(","b"," ","2",")">>

\* entries of a language list: absent, numbers, blank and language strings, nested lists
LangElements ==
    { PyNone, PyInt(0), PyInt(12), PyStr(<<>>), PyStr(<<" ">>),
      PyStr(<<"E","n","g","l","i","s","h">>), PyStr(<<" ","t","a","m","i","l"," ","(","b"," ","2",")"," ">>),
      PyList(<<>>), PyList(<<PyStr(<<"e","n","g","l","i","s","h">>)>>) }

\* lists of at most two entries
LangLists == {PyList(<<>>)} \cup {PyList(<<a>>) : a \in LangElements}
             \cup {PyList(<<a, b>>) : a \in LangElements, b \in LangElements}

\* the arguments of normalize_languages: strings, lists, and the falsy values
NormalizeInputs ==
    {PyStr(s) : s \in LangChunkTexts \cup {LangExample, LangRepeats}}
    \cup LangLists \cup {PyNone, PyInt(0), PyStr(<<>>)}

\* the "languages" field of the model's reply: a separated string, a list, null, a number
LanguageFields ==
    { PyNone, PyInt(0), PyInt(3), PyStr(<<>>), PyStr(<<",">>),
      PyStr(<<"E","n","g","l","i","s","h",","," ","T","a","m","i","l"," ","(","N","a","t","i","v","e",")"," ","a","n","d"," ","h","i","n","d","i","/","u","r","d","u",";","f","r","e","n","c","h">>),
      PyStr(<<" ","a","n","d"," ","e","n","g","l","i","s","h"," ","a","n","d"," ">>) }
    \cup LangLists

\* the parsed reply: without a "languages" key, or with one of the fields
LanguageRecords ==
    {EmptyDict} \cup {PyDict([k \in {"languages"} |-> f]) : f \in LanguageFields}

\* a call of normalize_languages or of a language step is pending
InitLang ==
    /\ \/ op = "normalize_languages" /\ args \in NormalizeInputs
       \/ op = "process_resume_file:languages" /\ args \in LanguageRecords
       \/ op = "extract_resume_data:languages" /\ args \in LanguageRecords
    /\ pc = "call"
    /\ ret = <<>>
    /\ locals = <<>>

NormalizeLanguages ==
    /\ pc = "call"
    /\ op = "normalize_languages"
    /\ ret' = normalize_languages(args)
    /\ pc' = "done"
    /\ UNCHANGED <<op, args, locals>>

ProcessResumeLanguages ==
    /\ pc = "call"
    /\ op = "process_resume_file:languages"
    /\ ret' = process_resume_languages(args)
    /\ pc' = "done"
    /\ UNCHANGED <<op, args, locals>>

ExtractResumeDataLanguages ==
    /\ pc = "call"
    /\ op = "extract_resume_data:languages"
    /\ ret' = extract_resume_data_languages(args)
    /\ pc' = "done"
    /\ UNCHANGED <<op, args, locals>>

NextLang == NormalizeLanguages \/ ProcessResumeLanguages \/ ExtractResumeDataLanguages

SpecLang == InitLang /\ [][NextLang]_vars

(***************************************************************************)
(* Strict-mode extraction (resume_helper.py:872-1011)                      *)
(***************************************************************************)
TECH_SKILL_HEADINGS ==
    << <<"t","e","c","h","n","i","c","a","l"," ","s","k","i","l","l","s">>,
       <<"t","e","c","h","n","i","c","a","l"," ","s","k","i","l","l">>, <<"s","k","i","l","l","s">>,
       <<"s","k","i","l","l","s","e","t">>, <<"t","e","c","h"," ","s","k","i","l","l","s">>,
       <<"c","o","r","e"," ","s","k","i","l","l","s">>, <<"k","e","y"," ","s","k","i","l","l","s">>,
       <<"h","a","r","d"," ","s","k","i","l","l","s">>,
       <<"p","r","o","f","e","s","s","i","o","n","a","l"," ","s","k","i","l","l","s">>,
       <<"t","e","c","h","n","i","c","a","l"," ","p","r","o","f","i","c","i","e","n","c","i","e","s">>,
       <<"t","e","c","h","n","i","c","a","l"," ","p","r","o","f","i","c","i","e","n","c","y">>,
       <<"t","e","c","h","n","i","c","a","l"," ","e","x","p","e","r","t","i","s","e">>,
       <<"s","o","f","t","w","a","r","e"," ","s","k","i","l","l","s">>,
       <<"t","o","o","l","s"," ","&"," ","t","e","c","h","n","o","l","o","g","i","e","s">>,
       <<"t","o","o","l","s"," ","a","n","d"," ","t","e","c","h","n","o","l","o","g","i","e","s">>,
       <<"t","e","c","h","n","o","l","o","g","i","e","s">>,
       <<"t","e","c","h"," ","s","t","a","c","k">>,
       <<"t","e","c","h","n","i","c","a","l"," ","t","o","o","l","k","i","t">>,
       <<"p","r","o","g","r","a","m","m","i","n","g"," ","s","k","i","l","l","s">>,
       <<"p","r","o","g","r","a","m","m","i","n","g"," ","l","a","n","g","u","a","g","e","s">>,
       <<"p","r","o","g","r","a","m","m","i","n","g"," ","l","a","n","g","u","a","g","e">>,
       <<"i","t"," ","s","k","i","l","l","s">>,
       <<"c","o","m","p","u","t","e","r"," ","s","k","i","l","l","s">>,
       <<"d","o","m","a","i","n"," ","s","k","i","l","l","s">>,
       <<"s","p","e","c","i","a","l","i","z","e","d"," ","s","k","i","l","l","s">>,
       <<"p","r","i","m","a","r","y"," ","s","k","i","l","l","s">>,
       <<"r","e","l","e","v","a","n","t"," ","s","k","i","l","l","s">>,
       <<"d","e","v","e","l","o","p","m","e","n","t"," ","s","k","i","l","l","s">>,
       <<"t","e","c","h","n","i","c","a","l"," ","c","o","m","p","e","t","e","n","c","i","e","s">>,
       <<"s","k","i","l","l"," ","h","i","g","h","l","i","g","h","t","s">>,
       <<"s","k","i","l","l","s"," ","h","i","g","h","l","i","g","h","t","s">>,
       <<"l","a","n","g","u","a","g","e","s">>, <<"l","a","n","g","u","a","g","e">>,
       <<"L","a","n","g","u","a","g","e","s">>, <<"L","a","n","g","u","a","g","e">>,
       <<"t","o","o","l","s">>, <<"t","o","o","l">>,
       <<"t","e","c","h","n","i","c","a","l"," ","t","o","o","l","s">>,
       <<"s","o","f","t","w","a","r","e"," ","t","o","o","l","s">>,
       <<"d","e","v","e","l","o","p","e","r"," ","t","o","o","l","s">> >>

AREA_INTEREST_HEADINGS ==
    << <<"a","r","e","a"," ","o","f"," ","i","n","t","e","r","e","s","t">>,
       <<"a","r","e","a","s"," ","o","f"," ","i","n","t","e","r","e","s","t">>,
       <<"i","n","t","e","r","e","s","t","s">>,
       <<"i","n","t","e","r","e","s","t"," ","a","r","e","a","s">>,
       <<"t","e","c","h","n","i","c","a","l"," ","i","n","t","e","r","e","s","t","s">>,
       <<"p","r","o","f","e","s","s","i","o","n","a","l"," ","i","n","t","e","r","e","s","t","s">>,
       <<"c","a","r","e","e","r"," ","i","n","t","e","r","e","s","t","s">>,
       <<"d","o","m","a","i","n"," ","i","n","t","e","r","e","s","t","s">>,
       <<"e","n","g","i","n","e","e","r","i","n","g"," ","i","n","t","e","r","e","s","t","s">>,
       <<"f","i","e","l","d","s"," ","o","f"," ","i","n","t","e","r","e","s","t">>,
       <<"p","r","e","f","e","r","r","e","d"," ","d","o","m","a","i","n","s">>,
       <<"p","r","e","f","e","r","r","e","d"," ","a","r","e","a","s">>,
       <<"p","r","e","f","e","r","r","e","d"," ","t","e","c","h","n","i","c","a","l"," ","a","r","e","a","s">>,
       <<"s","p","e","c","i","a","l","i","z","a","t","i","o","n"," ","a","r","e","a","s">>,
       <<"p","r","e","f","e","r","r","e","d"," ","f","i","e","l","d","s">>,
       <<"p","a","s","s","i","o","n">>, <<"m","y"," ","i","n","t","e","r","e","s","t","s">> >>

\* a PDF upload: pdfplumber cannot open it, or it has pages whose extract_text()
\* is a str or None
UnreadablePdf == [readable |-> FALSE, pages |-> <<>>]

PdfWithPages(pages) == [readable |-> TRUE, pages |-> pages]

\* lines 901-908: the page texts joined by newlines, "" when the reader raises
extract_text_from_pdf(file_bytes) ==
    IF ~file_bytes.readable THEN <<>>
    ELSE Join(<<"\n">>, [i \in DOMAIN file_bytes.pages |->
                            IF Truthy(file_bytes.pages[i]) THEN file_bytes.pages[i].v ELSE <<>>])

RECURSIVE CollapseSpaces(_, _)
\* re.sub(r"\s+", " ", s) from index i on
CollapseSpaces(s, i) ==
    IF i > Len(s) THEN <<>>
    ELSE IF IsSpace(s[i]) THEN <<" ">> \o CollapseSpaces(s, i + SpaceRun(s, i))
    ELSE <<s[i]>> \o CollapseSpaces(s, i + 1)

\* normalize_text without the strip
normalize_text_no_strip(text) == CollapseSpaces(text, 1)

\* lines 911-913
normalize_text(text) == Strip(CollapseSpaces(text, 1))

\* lines 916-921: some heading is a substring of the lowercased text
heading_exists(text, heading_list) ==
    LET text_lower == Lower(text)
    IN \E k \in DOMAIN heading_list : Contains(text_lower, heading_list[k])

(***************************************************************************)
(* json.loads, for documents of objects, arrays, strings, numbers and the  *)
(* literals; the escapes \b, \f and \u are outside the alphabet             *)
(***************************************************************************)
PyBool(b) == [t |-> "bool", v |-> b]

\* a float, held as its literal
PyFloat(lit) == [t |-> "float", v |-> lit]

ParseFail == [ok |-> FALSE]

Parsed(v, n) == [ok |-> TRUE, val |-> v, next |-> n]

\* the character at index i, "" past the end
CharAt(s, i) == IF i >= 1 /\ i <= Len(s) THEN s[i] ELSE ""

\* the index of the first non-whitespace character from i on
SkipWs(s, i) == i + SpaceRun(s, i)

RECURSIVE KeyOf(_)
\* a str used as a dict key
KeyOf(s) == IF s = <<>> THEN "" ELSE s[1] \o KeyOf(Tail(s))

RECURSIVE StrToInt(_, _)
\* int(digits), acc holding the value of the digits already read
StrToInt(digits, acc) ==
    IF digits = <<>> THEN acc
    ELSE StrToInt(Tail(digits), 10 * acc + (CHOOSE d \in 0..9 : DigitChars[d + 1] = digits[1]))

JsonEscapes ==
    ("\"" :> "\"") @@ ("\\" :> "\\") @@ ("/" :> "/") @@ ("n" :> "\n") @@ ("t" :> "\t") @@ ("r" :> "\r")

RECURSIVE ScanString(_, _, _)
\* the body of a JSON string from index i (just after the opening quote)
ScanString(s, i, acc) ==
    IF i > Len(s) THEN ParseFail
    ELSE IF s[i] = "\"" THEN Parsed(acc, i + 1)
    ELSE IF s[i] = "\\"
         THEN IF CharAt(s, i + 1) \in DOMAIN JsonEscapes
              THEN ScanString(s, i + 2, Append(acc, JsonEscapes[s[i + 1]]))
              ELSE ParseFail
    ELSE IF s[i] \in {"\n", "\t", "\r"} THEN ParseFail
    ELSE ScanString(s, i + 1, Append(acc, s[i]))

\* a JSON number at index i: -?(0|[1-9]\d*)(\.\d+)?([eE][-+]?\d+)?
ScanNumber(s, i) ==
    LET d == IF CharAt(s, i) = "-" THEN i + 1 ELSE i
        n == IF CharAt(s, d) = "0" THEN 1 ELSE DigitRun(s, d)
        f == d + n
        frac == IF CharAt(s, f) = "." /\ DigitRun(s, f + 1) > 0 THEN 1 + DigitRun(s, f + 1) ELSE 0
        e == f + frac
        sign == IF CharAt(s, e + 1) \in {"-", "+"} THEN 1 ELSE 0
        exp == IF CharAt(s, e) \in {"e", "E"} /\ DigitRun(s, e + 1 + sign) > 0
               THEN 1 + sign + DigitRun(s, e + 1 + sign) ELSE 0
        value == StrToInt(SubSeq(s, d, f - 1), 0)
    IN IF n = 0 THEN ParseFail
       ELSE IF frac + exp > 0 THEN Parsed(PyFloat(SubSeq(s, i, e + exp - 1)), e + exp)
       ELSE Parsed(PyInt(IF d > i THEN 0 - value ELSE value), f)

RECURSIVE ParseValue(_, _)
RECURSIVE ParseArray(_, _, _)
RECURSIVE ParseObject(_, _, _)
RECURSIVE ParseMember(_, _, _, _)

\* the JSON value that starts at index i
ParseValue(s, i) ==
    Bind({
    CASE c = "\"" ->
            Bind({IF r.ok THEN Parsed(PyStr(r.val), r.next) ELSE ParseFail : r \in {ScanString(s, i + 1, <<>>)}})
      [] c = "{" ->
            Bind({IF CharAt(s, j) = "}" THEN Parsed(EmptyDict, j + 1) ELSE ParseObject(s, j, <<>>) : j \in {SkipWs(s, i + 1)}})
      [] c = "[" ->
            Bind({IF CharAt(s, j) = "]" THEN Parsed(PyList(<<>>), j + 1) ELSE ParseArray(s, j, <<>>) : j \in {SkipWs(s, i + 1)}})
      [] c = "n" /\ MatchAt(s, i, <<"n","u","l","l">>) -> Parsed(PyNone, i + 4)
      [] c = "t" /\ MatchAt(s, i, <<"t","r","u","e">>) -> Parsed(PyBool(TRUE), i + 4)
      [] c = "f" /\ MatchAt(s, i, <<"f","a","l","s","e">>) -> Parsed(PyBool(FALSE), i + 5)
      [] OTHER -> ScanNumber(s, i)
    : c \in {CharAt(s, i)}})

\* the rest of an array whose next element starts at index i
ParseArray(s, i, acc) ==
    Bind({
    IF ~v.ok THEN ParseFail
    ELSE Bind({IF CharAt(s, e) = "]" THEN Parsed(PyList(Append(acc, v.val)), e + 1)
               ELSE IF CharAt(s, e) = "," THEN ParseArray(s, SkipWs(s, e + 1), Append(acc, v.val))
               ELSE ParseFail : e \in {SkipWs(s, v.next)}})
    : v \in {ParseValue(s, i)}})

\* the value of the key k and the pairs that follow it; c is the index after the key
ParseMember(s, k, c, acc) ==
    IF CharAt(s, c) # ":" THEN ParseFail
    ELSE Bind({
         IF ~v.ok THEN ParseFail
         ELSE Bind({IF CharAt(s, e) = "}" THEN Parsed(PyDict((KeyOf(k) :> v.val) @@ acc), e + 1)
                    ELSE IF CharAt(s, e) = "," THEN ParseObject(s, SkipWs(s, e + 1), (KeyOf(k) :> v.val) @@ acc)
                    ELSE ParseFail : e \in {SkipWs(s, v.next)}})
         : v \in {ParseValue(s, SkipWs(s, c + 1))}})

\* the rest of an object whose next key starts at index i; a repeated key keeps
\* its last value
ParseObject(s, i, acc) ==
    IF CharAt(s, i) # "\"" THEN ParseFail
    ELSE Bind({IF ~k.ok THEN ParseFail ELSE ParseMember(s, k.val, SkipWs(s, k.next), acc)
               : k \in {ScanString(s, i + 1, <<>>)}})

\* json.loads(content)
json_loads(content) ==
    IF content.t # "str" THEN Raise("TypeError")
    ELSE Bind({IF r.ok /\ SkipWs(content.v, r.next) = Len(content.v) + 1
               THEN Return(r.val)
               ELSE Raise("JSONDecodeError")
               : r \in {ParseValue(content.v, SkipWs(content.v, 1))}})

\* re.search(r"\{.*\}", s, re.DOTALL): from the first "{" to the last "}" after it,
\* <<>> standing for no match
SearchBraces(s) ==
    LET open == {i \in 1..Len(s) : s[i] = "{"}
        close == {i \in 1..Len(s) : s[i] = "}"}
    IN IF open = {} \/ close = {} \/ Max(close) < Min(open) THEN <<>>
       ELSE SubSeq(s, Min(open), Max(close))

NotFound == PyStr(<<"n","o","t"," ","f","o","u","n","d">>)

\* parsed.get(k, "not found")
GetOrNotFound(parsed, k) == IF k \in DOMAIN parsed.v THEN parsed.v[k] ELSE NotFound

\* a response of chat.completions.create: the call raises, or it returns choices
ApiError == [t |-> "error"]

Completion(choices) == [t |-> "completion", choices |-> choices]

\* lines 972-1001; openrouter_client is TRUE when config.py has built a client,
\* response is what chat.completions.create does
llm_extract_resume_details(raw_text, found_skill_heading, found_interest_heading, openrouter_client, response) ==
    IF ~openrouter_client THEN Raise("AttributeError")
    ELSE IF response.t = "error" THEN Raise("APIError")
    ELSE IF response.choices = <<>> THEN Raise("IndexError")
    ELSE LET content == response.choices[1].content
             first == json_loads(content)
             match == SearchBraces(content.v)
             second == json_loads(PyStr(match))
             parsed == IF ~first.raised THEN first
                       ELSE IF content.t # "str" THEN Raise("TypeError")
                       ELSE IF match # <<>> THEN second
                       ELSE Return(EmptyDict)
         IN IF parsed.raised THEN parsed
            ELSE IF parsed.val.t # "dict" THEN Raise("AttributeError")
            ELSE Return(PyDict([technical_skills |-> GetOrNotFound(parsed.val, "technical_skills"),
                                areas_of_interest |-> GetOrNotFound(parsed.val, "areas_of_interest")]))

\* lines 1004-1009: the text and the two heading flags
resume_details_locals(file_bytes) ==
    LET raw == normalize_text(extract_text_from_pdf(file_bytes))
    IN [ raw |-> raw,
         found_skill_heading |-> heading_exists(raw, TECH_SKILL_HEADINGS),
         found_interest_heading |-> heading_exists(raw, AREA_INTEREST_HEADINGS) ]

\* lines 1004-1011
extract_resume_details(file_bytes, openrouter_client, response) ==
    LET l == resume_details_locals(file_bytes)
    IN llm_extract_resume_details(l.raw, l.found_skill_heading, l.found_interest_heading,
                                  openrouter_client, response)

(***************************************************************************)
(* Regular expressions: a pattern is a term, and Ends lists the ways the   *)
(* term can match from a position in the order the backtracking matcher of *)
(* re tries them, so that the first one is the match re reports            *)
(***************************************************************************)
SpaceChars == {" ", "\n", "\t", "\r"}

WordChars == LowerSet \cup UpperSet \cup DigitSet \cup {"_"}

\* a literal string
ReLit(w) == [k |-> "lit", w |-> w]

\* one character of a class, or (neg) one character outside it
ReIn(set, neg) == [k |-> "in", set |-> set, neg |-> neg]

ReCat(parts) == [k |-> "cat", parts |-> parts]

ReAlt(parts) == [k |-> "alt", parts |-> parts]

\* r{min,max}, max = -1 for no upper limit: as many as possible first
ReGreedy(r, min, max) == [k |-> "rep", r |-> r, min |-> min, max |-> max, lazy |-> FALSE]

\* r{min,max}?: as few as possible first
ReLazy(r, min, max) == [k |-> "rep", r |-> r, min |-> min, max |-> max, lazy |-> TRUE]

\* capturing group n
ReGroup(n, r) == [k |-> "group", n |-> n, r |-> r]

\* (?=r)
ReLookahead(r) == [k |-> "ahead", r |-> r]

\* ^ without re.MULTILINE
ReBol == [k |-> "bol"]

\* $ without re.MULTILINE: the end, or just before a final newline
ReEol == [k |-> "eol"]

\* \b
ReWordB == [k |-> "wordb"]

InClass(c, r) == (c \in r.set) # r.neg

\* the number of characters of class r from index i on, at most max when max >= 0
ClassRun(s, i, r, max) ==
    LET stop == Min({j \in i..(Len(s) + 1) : j = Len(s) + 1 \/ ~InClass(s[j], r)})
    IN IF max >= 0 /\ stop - i > max THEN max ELSE stop - i

\* a matcher state: the position reached and the groups captured
ReState(pos, groups) == [pos |-> pos, groups |-> groups]

RECURSIVE Ends(_, _, _)
RECURSIVE EndsFrom(_, _, _)
RECURSIVE EndsRep(_, _, _, _)
RECURSIVE EndsRepFrom(_, _, _, _)

\* the states in which r can end when it starts in state st, in order of preference
Ends(r, s, st) ==
    CASE r.k = "lit" ->
            IF MatchAt(s, st.pos, r.w) THEN <<ReState(st.pos + Len(r.w), st.groups)>> ELSE <<>>
      [] r.k = "in" ->
            IF st.pos <= Len(s) /\ InClass(s[st.pos], r)
            THEN <<ReState(st.pos + 1, st.groups)>> ELSE <<>>
      [] r.k = "cat" ->
            IF r.parts = <<>> THEN <<st>>
            ELSE EndsFrom(ReCat(Tail(r.parts)), s, Ends(Head(r.parts), s, st))
      [] r.k = "alt" ->
            IF r.parts = <<>> THEN <<>>
            ELSE Ends(Head(r.parts), s, st) \o Ends(ReAlt(Tail(r.parts)), s, st)
      [] r.k = "rep" ->
            IF r.r.k = "in"
            THEN LET n == ClassRun(s, st.pos, r.r, r.max)
                     count == n - r.min + 1
                 IN IF count <= 0 THEN <<>>
                    ELSE AsSeq([j \in 1..count |->
                                   ReState(st.pos + (IF r.lazy THEN r.min + j - 1 ELSE n - j + 1),
                                           st.groups)], count)
            ELSE EndsRep(r, s, st, 0)
      [] r.k = "group" ->
            LET e == Ends(r.r, s, st)
            IN AsSeq([j \in DOMAIN e |->
                         ReState(e[j].pos, (r.n :> <<st.pos, e[j].pos>>) @@ e[j].groups)], Len(e))
      [] r.k = "ahead" -> IF Ends(r.r, s, st) # <<>> THEN <<st>> ELSE <<>>
      [] r.k = "bol" -> IF st.pos = 1 THEN <<st>> ELSE <<>>
      [] r.k = "eol" ->
            IF st.pos = Len(s) + 1 \/ (st.pos = Len(s) /\ s[st.pos] = "\n") THEN <<st>> ELSE <<>>
      [] r.k = "wordb" -> IF WordBoundary(s, st.pos) THEN <<st>> ELSE <<>>

\* Ends from each of the states, in their order
EndsFrom(r, s, states) ==
    IF states = <<>> THEN <<>>
    ELSE IF Len(states) = 1 THEN Ends(r, s, states[1])
    ELSE LET half == Len(states) \div 2
         IN EndsFrom(r, s, SubSeq(states, 1, half))
            \o EndsFrom(r, s, SubSeq(states, half + 1, Len(states)))

\* a repetition that has already matched count times
EndsRep(r, s, st, count) ==
    LET more == IF r.max < 0 \/ count < r.max
                THEN EndsRepFrom(r, s, SelectSeq(Ends(r.r, s, st), LAMBDA t : t.pos > st.pos),
                                 count + 1)
                ELSE <<>>
        stop == IF count >= r.min THEN <<st>> ELSE <<>>
    IN IF r.lazy THEN stop \o more ELSE more \o stop

EndsRepFrom(r, s, states, count) ==
    IF states = <<>> THEN <<>>
    ELSE EndsRep(r, s, Head(states), count) \o EndsRepFrom(r, s, Tail(states), count)

RECURSIVE FindIter(_, _, _)
\* re.finditer(r, s) from index p on: the leftmost match, then the matches after
\* its end (the patterns searched for never match the empty string)
FindIter(r, s, p) ==
    LET starts == {q \in p..(Len(s) + 1) : Ends(r, s, ReState(q, <<>>)) # <<>>} IN
    IF starts = {} THEN <<>>
    ELSE LET q == Min(starts)
             e == Ends(r, s, ReState(q, <<>>))
         IN <<[start |-> q, end |-> e[1].pos, groups |-> e[1].groups]>>
            \o FindIter(r, s, IF e[1].pos > q THEN e[1].pos ELSE q + 1)

\* match.group(n), "" when the group took no part
GroupText(s, m, n) ==
    IF n \in DOMAIN m.groups THEN SubSeq(s, m.groups[n][1], m.groups[n][2] - 1) ELSE <<>>

RECURSIVE Pieces(_, _, _)
\* the pieces of s between the matches, from index p on
Pieces(s, matches, p) ==
    IF matches = <<>> THEN <<SubSeq(s, p, Len(s))>>
    ELSE <<SubSeq(s, p, Head(matches).start - 1)>> \o Pieces(s, Tail(matches), Head(matches).end)

\* re.split(r, s), r without groups
ReSplit(r, s) == Pieces(s, FindIter(r, s, 1), 1)

\* re.sub(r, repl, s), repl a plain string
ReSub(r, repl, s) == Join(repl, Pieces(s, FindIter(r, s, 1), 1))

(***************************************************************************)
(* Skill extraction (resume_helper.py:1076-1352)                           *)
(***************************************************************************)
\* lines 1080-1249, in the order of the dict
SKILL_SYNONYMS ==
    <<
      [canonical |-> <<"e","x","c","e","l">>,
       aliases |-> <<<<"m","s"," ","e","x","c","e","l">>, <<"m","i","c","r","o","s","o","f","t"," ","e","x","c","e","l">>>>],
      [canonical |-> <<"p","o","w","e","r"," ","b","i">>,
       aliases |-> <<<<"p","o","w","e","r","b","i">>>>],
      [canonical |-> <<"m","y","s","q","l">>,
       aliases |-> <<<<"m","y"," ","s","q","l">>, <<"m","y","-","s","q","l">>>>],
      [canonical |-> <<"h","t","m","l">>,
       aliases |-> <<<<"h","t","m","l","5">>>>],
      [canonical |-> <<"c","s","s">>,
       aliases |-> <<<<"c","s","s","3">>>>],
      [canonical |-> <<"r","e","a","c","t">>,
       aliases |-> <<<<"r","e","a","c","t","j","s">>, <<"r","e","a","c","t"," ","j","s">>>>],
      [canonical |-> <<"n","o","d","e">>,
       aliases |-> <<<<"n","o","d","e","j","s">>, <<"n","o","d","e"," ","j","s">>>>],
      [canonical |-> <<"g","i","t">>,
       aliases |-> <<<<"g","i","t"," ","v","e","r","s","i","o","n"," ","c","o","n","t","r","o","l">>>>],
      [canonical |-> <<"v","s","c","o","d","e">>,
       aliases |-> <<<<"v","i","s","u","a","l"," ","s","t","u","d","i","o"," ","c","o","d","e">>, <<"v","s"," ","c","o","d","e">>>>],
      [canonical |-> <<"j","u","p","y","t","e","r">>,
       aliases |-> <<<<"j","u","p","y","t","e","r"," ","n","o","t","e","b","o","o","k">>, <<"j","u","p","y","t","e","r"," ","l","a","b">>>>],
      [canonical |-> <<"p","o","s","t","m","a","n">>,
       aliases |-> <<>>],
      [canonical |-> <<"f","i","g","m","a">>,
       aliases |-> <<>>],
      [canonical |-> <<"d","o","c","k","e","r">>,
       aliases |-> <<>>],
      [canonical |-> <<"k","u","b","e","r","n","e","t","e","s">>,
       aliases |-> <<<<"k","8","s">>>>],
      [canonical |-> <<"a","w","s">>,
       aliases |-> <<<<"a","m","a","z","o","n"," ","w","e","b"," ","s","e","r","v","i","c","e","s">>>>],
      [canonical |-> <<"a","z","u","r","e">>,
       aliases |-> <<<<"m","i","c","r","o","s","o","f","t"," ","a","z","u","r","e">>>>],
      [canonical |-> <<"g","c","p">>,
       aliases |-> <<<<"g","o","o","g","l","e"," ","c","l","o","u","d"," ","p","l","a","t","f","o","r","m">>>>],
      [canonical |-> <<"j","e","n","k","i","n","s">>,
       aliases |-> <<>>],
      [canonical |-> <<"a","n","s","i","b","l","e">>,
       aliases |-> <<>>],
      [canonical |-> <<"t","e","r","r","a","f","o","r","m">>,
       aliases |-> <<>>],
      [canonical |-> <<"p","o","s","t","g","r","e","s","q","l">>,
       aliases |-> <<<<"p","o","s","t","g","r","e","s">>>>],
      [canonical |-> <<"m","o","n","g","o","d","b">>,
       aliases |-> <<>>],
      [canonical |-> <<"r","e","d","i","s">>,
       aliases |-> <<>>],
      [canonical |-> <<"k","a","f","k","a">>,
       aliases |-> <<<<"a","p","a","c","h","e"," ","k","a","f","k","a">>>>],
      [canonical |-> <<"h","a","d","o","o","p">>,
       aliases |-> <<<<"a","p","a","c","h","e"," ","h","a","d","o","o","p">>>>],
      [canonical |-> <<"s","p","a","r","k">>,
       aliases |-> <<<<"a","p","a","c","h","e"," ","s","p","a","r","k">>>>],
      [canonical |-> <<"t","e","n","s","o","r","f","l","o","w">>,
       aliases |-> <<>>],
      [canonical |-> <<"p","y","t","o","r","c","h">>,
       aliases |-> <<<<"p","y","t","o","r","c","h">>>>],
      [canonical |-> <<"t","a","b","l","e","a","u">>,
       aliases |-> <<>>],
      [canonical |-> <<"p","o","w","e","r","b","i">>,
       aliases |-> <<<<"p","o","w","e","r"," ","b","i">>>>],
      [canonical |-> <<"s","a","p">>,
       aliases |-> <<>>],
      [canonical |-> <<"s","a","l","e","s","f","o","r","c","e">>,
       aliases |-> <<>>],
      [canonical |-> <<"o","r","a","c","l","e">>,
       aliases |-> <<<<"o","r","a","c","l","e"," ","d","b">>, <<"o","r","a","c","l","e"," ","d","a","t","a","b","a","s","e">>>>],
      [canonical |-> <<"m","s","s","q","l">>,
       aliases |-> <<<<"m","i","c","r","o","s","o","f","t"," ","s","q","l"," ","s","e","r","v","e","r">>, <<"s","q","l"," ","s","e","r","v","e","r">>>>],
      [canonical |-> <<"l","i","n","u","x">>,
       aliases |-> <<>>],
      [canonical |-> <<"u","n","i","x">>,
       aliases |-> <<>>],
      [canonical |-> <<"b","a","s","h">>,
       aliases |-> <<<<"b","a","s","h"," ","s","c","r","i","p","t","i","n","g">>, <<"s","h","e","l","l"," ","s","c","r","i","p","t","i","n","g">>>>],
      [canonical |-> <<"p","o","w","e","r","s","h","e","l","l">>,
       aliases |-> <<>>],
      [canonical |-> <<"r","h","e","l">>,
       aliases |-> <<<<"r","e","d"," ","h","a","t"," ","e","n","t","e","r","p","r","i","s","e"," ","l","i","n","u","x">>>>],
      [canonical |-> <<"u","b","u","n","t","u">>,
       aliases |-> <<>>],
      [canonical |-> <<"c","e","n","t","o","s">>,
       aliases |-> <<>>],
      [canonical |-> <<"w","o","r","d","p","r","e","s","s">>,
       aliases |-> <<>>],
      [canonical |-> <<"d","r","u","p","a","l">>,
       aliases |-> <<>>],
      [canonical |-> <<"m","a","g","e","n","t","o">>,
       aliases |-> <<>>],
      [canonical |-> <<"s","h","o","p","i","f","y">>,
       aliases |-> <<>>],
      [canonical |-> <<"w","o","o","c","o","m","m","e","r","c","e">>,
       aliases |-> <<<<"w","o","o"," ","c","o","m","m","e","r","c","e">>>>],
      [canonical |-> <<"s","e","o">>,
       aliases |-> <<<<"s","e","a","r","c","h"," ","e","n","g","i","n","e"," ","o","p","t","i","m","i","z","a","t","i","o","n">>>>],
      [canonical |-> <<"a","d","o","b","e"," ","p","h","o","t","o","s","h","o","p">>,
       aliases |-> <<<<"p","h","o","t","o","s","h","o","p">>, <<"p","s">>>>],
      [canonical |-> <<"a","d","o","b","e"," ","i","l","l","u","s","t","r","a","t","o","r">>,
       aliases |-> <<<<"i","l","l","u","s","t","r","a","t","o","r">>, <<"a","i">>>>],
      [canonical |-> <<"a","d","o","b","e"," ","x","d">>,
       aliases |-> <<<<"x","d">>>>],
      [canonical |-> <<"s","k","e","t","c","h">>,
       aliases |-> <<>>],
      [canonical |-> <<"i","n","v","i","s","i","o","n">>,
       aliases |-> <<>>],
      [canonical |-> <<"z","e","p","l","i","n">>,
       aliases |-> <<>>],
      [canonical |-> <<"j","i","r","a">>,
       aliases |-> <<>>],
      [canonical |-> <<"c","o","n","f","l","u","e","n","c","e">>,
       aliases |-> <<>>],
      [canonical |-> <<"t","r","e","l","l","o">>,
       aliases |-> <<>>],
      [canonical |-> <<"a","s","a","n","a">>,
       aliases |-> <<>>],
      [canonical |-> <<"s","l","a","c","k">>,
       aliases |-> <<>>],
      [canonical |-> <<"z","o","o","m">>,
       aliases |-> <<>>],
      [canonical |-> <<"t","e","a","m","s">>,
       aliases |-> <<<<"m","i","c","r","o","s","o","f","t"," ","t","e","a","m","s">>>>],
      [canonical |-> <<"s","k","y","p","e">>,
       aliases |-> <<>>],
      [canonical |-> <<"w","e","b","e","x">>,
       aliases |-> <<<<"c","i","s","c","o"," ","w","e","b","e","x">>>>],
      [canonical |-> <<"v","m","w","a","r","e">>,
       aliases |-> <<>>],
      [canonical |-> <<"v","i","r","t","u","a","l","b","o","x">>,
       aliases |-> <<>>],
      [canonical |-> <<"w","i","r","e","s","h","a","r","k">>,
       aliases |-> <<>>],
      [canonical |-> <<"e","t","h","e","r","n","e","t">>,
       aliases |-> <<>>],
      [canonical |-> <<"t","c","p","/","i","p">>,
       aliases |-> <<<<"t","c","p">>, <<"i","p">>>>],
      [canonical |-> <<"d","n","s">>,
       aliases |-> <<<<"d","o","m","a","i","n"," ","n","a","m","e"," ","s","y","s","t","e","m">>>>],
      [canonical |-> <<"d","h","c","p">>,
       aliases |-> <<<<"d","y","n","a","m","i","c"," ","h","o","s","t"," ","c","o","n","f","i","g","u","r","a","t","i","o","n"," ","p","r","o","t","o","c","o","l">>>>],
      [canonical |-> <<"v","p","n">>,
       aliases |-> <<<<"v","i","r","t","u","a","l"," ","p","r","i","v","a","t","e"," ","n","e","t","w","o","r","k">>>>],
      [canonical |-> <<"l","d","a","p">>,
       aliases |-> <<<<"l","i","g","h","t","w","e","i","g","h","t"," ","d","i","r","e","c","t","o","r","y"," ","a","c","c","e","s","s"," ","p","r","o","t","o","c","o","l">>>>],
      [canonical |-> <<"a","c","t","i","v","e"," ","d","i","r","e","c","t","o","r","y">>,
       aliases |-> <<<<"a","d">>>>],
      [canonical |-> <<"o","a","u","t","h">>,
       aliases |-> <<<<"o","a","t","h"," ","2",".","0">>>>],
      [canonical |-> <<"j","w","t">>,
       aliases |-> <<<<"j","s","o","n"," ","w","e","b"," ","t","o","k","e","n">>>>],
      [canonical |-> <<"r","e","s","t">>,
       aliases |-> <<<<"r","e","s","t","f","u","l">>, <<"r","e","s","t"," ","a","p","i">>>>],
      [canonical |-> <<"g","r","a","p","h","q","l">>,
       aliases |-> <<<<"g","r","a","p","h"," ","q","l">>>>],
      [canonical |-> <<"s","o","a","p">>,
       aliases |-> <<>>],
      [canonical |-> <<"g","r","p","c">>,
       aliases |-> <<<<"g","r","p","c">>>>],
      [canonical |-> <<"s","w","a","g","g","e","r">>,
       aliases |-> <<<<"o","p","e","n","a","p","i">>>>],
      [canonical |-> <<"i","n","s","o","m","n","i","a">>,
       aliases |-> <<>>],
      [canonical |-> <<"j","u","n","i","t">>,
       aliases |-> <<>>],
      [canonical |-> <<"t","e","s","t","n","g">>,
       aliases |-> <<>>],
      [canonical |-> <<"s","e","l","e","n","i","u","m">>,
       aliases |-> <<>>],
      [canonical |-> <<"c","y","p","r","e","s","s">>,
       aliases |-> <<>>],
      [canonical |-> <<"j","e","s","t">>,
       aliases |-> <<>>],
      [canonical |-> <<"m","o","c","h","a">>,
       aliases |-> <<>>],
      [canonical |-> <<"j","a","s","m","i","n","e">>,
       aliases |-> <<>>],
      [canonical |-> <<"p","y","t","e","s","t">>,
       aliases |-> <<>>],
      [canonical |-> <<"u","n","i","t","t","e","s","t">>,
       aliases |-> <<<<"p","y","t","h","o","n"," ","u","n","i","t","t","e","s","t">>>>],
      [canonical |-> <<"g","i","t","l","a","b">>,
       aliases |-> <<<<"g","i","t","l","a","b"," ","c","i","/","c","d">>>>],
      [canonical |-> <<"g","i","t","h","u","b">>,
       aliases |-> <<<<"g","i","t","h","u","b"," ","a","c","t","i","o","n","s">>>>],
      [canonical |-> <<"b","i","t","b","u","c","k","e","t">>,
       aliases |-> <<>>],
      [canonical |-> <<"t","r","a","v","i","s">>,
       aliases |-> <<<<"t","r","a","v","i","s"," ","c","i">>>>],
      [canonical |-> <<"c","i","r","c","l","e","c","i">>,
       aliases |-> <<<<"c","i","r","c","l","e"," ","c","i">>>>],
      [canonical |-> <<"p","u","p","p","e","t">>,
       aliases |-> <<>>],
      [canonical |-> <<"c","h","e","f">>,
       aliases |-> <<>>],
      [canonical |-> <<"d","o","c","k","e","r"," ","c","o","m","p","o","s","e">>,
       aliases |-> <<<<"d","o","c","k","e","r","-","c","o","m","p","o","s","e">>>>],
      [canonical |-> <<"h","e","l","m">>,
       aliases |-> <<>>],
      [canonical |-> <<"i","s","t","i","o">>,
       aliases |-> <<>>],
      [canonical |-> <<"p","r","o","m","e","t","h","e","u","s">>,
       aliases |-> <<>>],
      [canonical |-> <<"g","r","a","f","a","n","a">>,
       aliases |-> <<>>],
      [canonical |-> <<"k","i","b","a","n","a">>,
       aliases |-> <<>>],
      [canonical |-> <<"e","l","a","s","t","i","c","s","e","a","r","c","h">>,
       aliases |-> <<<<"e","l","a","s","t","i","c"," ","s","e","a","r","c","h">>>>],
      [canonical |-> <<"l","o","g","s","t","a","s","h">>,
       aliases |-> <<>>],
      [canonical |-> <<"f","i","l","e","b","e","a","t">>,
       aliases |-> <<>>],
      [canonical |-> <<"r","a","b","b","i","t","m","q">>,
       aliases |-> <<<<"r","a","b","b","i","t"," ","m","q">>>>],
      [canonical |-> <<"m","e","m","c","a","c","h","e","d">>,
       aliases |-> <<<<"m","e","m","c","a","c","h","e">>>>],
      [canonical |-> <<"n","g","i","n","x">>,
       aliases |-> <<<<"e","n","g","i","n","e"," ","x">>>>],
      [canonical |-> <<"a","p","a","c","h","e">>,
       aliases |-> <<<<"a","p","a","c","h","e"," ","h","t","t","p"," ","s","e","r","v","e","r">>>>],
      [canonical |-> <<"i","i","s">>,
       aliases |-> <<<<"i","n","t","e","r","n","e","t"," ","i","n","f","o","r","m","a","t","i","o","n"," ","s","e","r","v","i","c","e","s">>>>],
      [canonical |-> <<"t","o","m","c","a","t">>,
       aliases |-> <<<<"a","p","a","c","h","e"," ","t","o","m","c","a","t">>>>],
      [canonical |-> <<"j","b","o","s","s">>,
       aliases |-> <<>>],
      [canonical |-> <<"w","e","b","l","o","g","i","c">>,
       aliases |-> <<<<"o","r","a","c","l","e"," ","w","e","b","l","o","g","i","c"," ","s","e","r","v","e","r">>>>],
      [canonical |-> <<"w","e","b","s","p","h","e","r","e">>,
       aliases |-> <<<<"i","b","m"," ","w","e","b","s","p","h","e","r","e">>>>],
      [canonical |-> <<"e","c","2">>,
       aliases |-> <<<<"a","m","a","z","o","n"," ","e","c","2">>>>],
      [canonical |-> <<"s","3">>,
       aliases |-> <<<<"a","m","a","z","o","n"," ","s","3">>>>],
      [canonical |-> <<"l","a","m","b","d","a">>,
       aliases |-> <<<<"a","w","s"," ","l","a","m","b","d","a">>>>],
      [canonical |-> <<"f","i","r","e","b","a","s","e">>,
       aliases |-> <<<<"g","o","o","g","l","e"," ","f","i","r","e","b","a","s","e">>>>],
      [canonical |-> <<"h","e","r","o","k","u">>,
       aliases |-> <<>>],
      [canonical |-> <<"d","i","g","i","t","a","l","o","c","e","a","n">>,
       aliases |-> <<<<"d","i","g","i","t","a","l"," ","o","c","e","a","n">>>>],
      [canonical |-> <<"l","i","n","o","d","e">>,
       aliases |-> <<>>],
      [canonical |-> <<"v","u","l","t","r">>,
       aliases |-> <<>>],
      [canonical |-> <<"o","v","h">>,
       aliases |-> <<>>],
      [canonical |-> <<"a","l","i","b","a","b","a"," ","c","l","o","u","d">>,
       aliases |-> <<<<"a","l","i","b","a","b","a"," ","c","l","o","u","d">>, <<"a","l","i","b","a","b","a","c","l","o","u","d">>>>],
      [canonical |-> <<"o","r","a","c","l","e"," ","c","l","o","u","d">>,
       aliases |-> <<<<"o","r","a","c","l","e"," ","c","l","o","u","d"," ","i","n","f","r","a","s","t","r","u","c","t","u","r","e">>, <<"o","c","i">>>>],
      [canonical |-> <<"i","b","m"," ","c","l","o","u","d">>,
       aliases |-> <<<<"i","b","m"," ","c","l","o","u","d">>, <<"b","l","u","e","m","i","x">>>>],
      [canonical |-> <<"d","y","n","a","m","o","d","b">>,
       aliases |-> <<<<"a","m","a","z","o","n"," ","d","y","n","a","m","o","d","b">>>>],
      [canonical |-> <<"c","a","s","s","a","n","d","r","a">>,
       aliases |-> <<<<"a","p","a","c","h","e"," ","c","a","s","s","a","n","d","r","a">>>>],
      [canonical |-> <<"c","o","u","c","h","b","a","s","e">>,
       aliases |-> <<>>],
      [canonical |-> <<"c","o","u","c","h","d","b">>,
       aliases |-> <<<<"a","p","a","c","h","e"," ","c","o","u","c","h","d","b">>>>],
      [canonical |-> <<"h","b","a","s","e">>,
       aliases |-> <<<<"a","p","a","c","h","e"," ","h","b","a","s","e">>>>],
      [canonical |-> <<"h","i","v","e">>,
       aliases |-> <<<<"a","p","a","c","h","e"," ","h","i","v","e">>>>],
      [canonical |-> <<"p","i","g">>,
       aliases |-> <<<<"a","p","a","c","h","e"," ","p","i","g">>>>],
      [canonical |-> <<"f","l","i","n","k">>,
       aliases |-> <<<<"a","p","a","c","h","e"," ","f","l","i","n","k">>>>],
      [canonical |-> <<"s","t","o","r","m">>,
       aliases |-> <<<<"a","p","a","c","h","e"," ","s","t","o","r","m">>>>],
      [canonical |-> <<"p","u","l","s","a","r">>,
       aliases |-> <<<<"a","p","a","c","h","e"," ","p","u","l","s","a","r">>>>],
      [canonical |-> <<"i","g","n","i","t","e">>,
       aliases |-> <<<<"a","p","a","c","h","e"," ","i","g","n","i","t","e">>>>],
      [canonical |-> <<"g","e","o","d","e">>,
       aliases |-> <<<<"a","p","a","c","h","e"," ","g","e","o","d","e">>>>]
    >>

\* lines 1252-1260
normalize_skill(skill) ==
    LET s == Strip(Lower(skill))
        hits == {k \in DOMAIN SKILL_SYNONYMS :
                    \/ s = SKILL_SYNONYMS[k].canonical
                    \/ \E a \in DOMAIN SKILL_SYNONYMS[k].aliases : s = SKILL_SYNONYMS[k].aliases[a]}
    IN IF hits = {} THEN s ELSE SKILL_SYNONYMS[Min(hits)].canonical

\* lines 1268-1290
section_headers ==
    <<
      ReCat(<<ReLit(<<"t","o","o","l","s">>), ReGreedy(ReCat(<<ReGreedy(ReIn(SpaceChars, FALSE), 1, -1), ReLit(<<"a","n","d">>), ReGreedy(ReIn(SpaceChars, FALSE), 1, -1), ReLit(<<"t","e","c","h","n","o","l","o","g">>), ReAlt(<<ReLit(<<"y">>), ReLit(<<"i","e","s">>)>>)>>), 0, 1)>>),
      ReCat(<<ReLit(<<"t","e","c","h","n","i","c","a","l">>), ReGreedy(ReAlt(<<ReCat(<<ReGreedy(ReIn(SpaceChars, FALSE), 1, -1), ReLit(<<"s","k","i","l","l">>), ReGreedy(ReLit(<<"s">>), 0, 1)>>), ReCat(<<ReGreedy(ReIn(SpaceChars, FALSE), 1, -1), ReLit(<<"s","t","a","c","k">>)>>)>>), 0, 1)>>),
      ReCat(<<ReLit(<<"t","e","c","h","n","o","l","o","g","i","e">>), ReGreedy(ReLit(<<"s">>), 0, 1)>>),
      ReCat(<<ReLit(<<"s","k","i","l","l">>), ReGreedy(ReLit(<<"s">>), 0, 1)>>),
      ReCat(<<ReLit(<<"p","r","o","g","r","a","m","m","i","n","g">>), ReGreedy(ReAlt(<<ReCat(<<ReGreedy(ReIn(SpaceChars, FALSE), 1, -1), ReLit(<<"s","k","i","l","l">>), ReGreedy(ReLit(<<"s">>), 0, 1)>>), ReCat(<<ReGreedy(ReIn(SpaceChars, FALSE), 1, -1), ReLit(<<"l","a","n","g","u","a","g","e">>), ReGreedy(ReLit(<<"s">>), 0, 1)>>)>>), 0, 1)>>),
      ReCat(<<ReLit(<<"f","r","a","m","e","w","o","r","k">>), ReGreedy(ReLit(<<"s">>), 0, 1)>>),
      ReCat(<<ReLit(<<"l","i","b","r","a","r","i","e">>), ReGreedy(ReLit(<<"s">>), 0, 1)>>),
      ReCat(<<ReLit(<<"d","a","t","a","b","a","s","e">>), ReGreedy(ReLit(<<"s">>), 0, 1)>>),
      ReCat(<<ReLit(<<"p","l","a","t","f","o","r","m">>), ReGreedy(ReLit(<<"s">>), 0, 1)>>),
      ReCat(<<ReLit(<<"s","o","f","t","w","a","r","e">>), ReGreedy(ReCat(<<ReGreedy(ReIn(SpaceChars, FALSE), 1, -1), ReLit(<<"s","k","i","l","l">>), ReGreedy(ReLit(<<"s">>), 0, 1)>>), 0, 1)>>),
      ReCat(<<ReLit(<<"t","e","c","h","n","i","c","a","l">>), ReGreedy(ReAlt(<<ReCat(<<ReGreedy(ReIn(SpaceChars, FALSE), 1, -1), ReLit(<<"e","x","p","e","r","t","i","s","e">>)>>), ReCat(<<ReGreedy(ReIn(SpaceChars, FALSE), 1, -1), ReLit(<<"p","r","o","f","i","c","i","e","n","c","y">>)>>)>>), 0, 1)>>),
      ReCat(<<ReLit(<<"t","e","c","h","n","o","l","o","g","i","e">>), ReGreedy(ReLit(<<"s">>), 0, 1), ReGreedy(ReCat(<<ReGreedy(ReIn(SpaceChars, FALSE), 1, -1), ReLit(<<"a","n","d">>), ReGreedy(ReIn(SpaceChars, FALSE), 1, -1), ReLit(<<"t","o","o","l","s">>)>>), 0, 1)>>),
      ReCat(<<ReLit(<<"t","o","o","l","s">>), ReGreedy(ReCat(<<ReGreedy(ReIn(SpaceChars, FALSE), 1, -1), ReLit(<<"a","n","d">>), ReGreedy(ReIn(SpaceChars, FALSE), 1, -1), ReLit(<<"s","o","f","t","w","a","r","e">>)>>), 0, 1)>>),
      ReCat(<<ReLit(<<"t","e","c","h","n","i","c","a","l">>), ReAlt(<<ReCat(<<ReGreedy(ReIn(SpaceChars, FALSE), 1, -1), ReLit(<<"k","n","o","w","l","e","d","g","e">>)>>), ReCat(<<ReGreedy(ReIn(SpaceChars, FALSE), 1, -1), ReLit(<<"b","a","c","k","g","r","o","u","n","d">>)>>)>>)>>),
      ReCat(<<ReLit(<<"p","r","o","g","r","a","m","m","i","n","g">>), ReGreedy(ReCat(<<ReGreedy(ReIn(SpaceChars, FALSE), 1, -1), ReLit(<<"a","n","d">>), ReGreedy(ReIn(SpaceChars, FALSE), 1, -1), ReLit(<<"s","c","r","i","p","t","i","n","g">>)>>), 0, 1)>>),
      ReCat(<<ReLit(<<"d","e","v","e","l","o","p","m","e","n","t">>), ReGreedy(ReAlt(<<ReCat(<<ReGreedy(ReIn(SpaceChars, FALSE), 1, -1), ReLit(<<"e","n","v","i","r","o","n","m","e","n","t">>)>>), ReCat(<<ReGreedy(ReIn(SpaceChars, FALSE), 1, -1), ReLit(<<"s","t","a","c","k">>)>>)>>), 0, 1)>>),
      ReCat(<<ReLit(<<"t","e","c","h","n","i","c","a","l">>), ReGreedy(ReCat(<<ReGreedy(ReIn(SpaceChars, FALSE), 1, -1), ReLit(<<"s","t","a","c","k">>)>>), 0, 1)>>),
      ReCat(<<ReLit(<<"i","t">>), ReGreedy(ReAlt(<<ReCat(<<ReGreedy(ReIn(SpaceChars, FALSE), 1, -1), ReLit(<<"s","k","i","l","l","s">>)>>), ReCat(<<ReGreedy(ReIn(SpaceChars, FALSE), 1, -1), ReLit(<<"p","r","o","f","i","c","i","e","n","c","y">>)>>)>>), 0, 1)>>),
      ReCat(<<ReLit(<<"c","o","m","p","u","t","e","r">>), ReGreedy(ReAlt(<<ReCat(<<ReGreedy(ReIn(SpaceChars, FALSE), 1, -1), ReLit(<<"s","k","i","l","l","s">>)>>), ReCat(<<ReGreedy(ReIn(SpaceChars, FALSE), 1, -1), ReLit(<<"p","r","o","f","i","c","i","e","n","c","y">>)>>)>>), 0, 1)>>),
      ReCat(<<ReLit(<<"s","o","f","t","w","a","r","e">>), ReGreedy(ReAlt(<<ReCat(<<ReGreedy(ReIn(SpaceChars, FALSE), 1, -1), ReLit(<<"p","r","o","f","i","c","i","e","n","c","y">>)>>), ReCat(<<ReGreedy(ReIn(SpaceChars, FALSE), 1, -1), ReLit(<<"s","k","i","l","l","s">>)>>)>>), 0, 1)>>),
      ReCat(<<ReLit(<<"t","e","c","h","n","i","c","a","l">>), ReAlt(<<ReCat(<<ReGreedy(ReIn(SpaceChars, FALSE), 1, -1), ReLit(<<"c","o","m","p","e","t","e","n","c","i","e","s">>)>>), ReCat(<<ReGreedy(ReIn(SpaceChars, FALSE), 1, -1), ReLit(<<"a","b","i","l","i","t","i","e","s">>)>>)>>)>>)
    >>

\* line 1293:
\* (?:^|\n)\s*(headers)\s*[\n:]+(.*?)(?=\n\s*(?:headers|$)), with re.DOTALL
section_pattern ==
    ReCat(<< ReAlt(<<ReBol, ReLit(<<"\n">>)>>),
             ReGreedy(ReIn(SpaceChars, FALSE), 0, -1),
             ReGroup(1, ReAlt(section_headers)),
             ReGreedy(ReIn(SpaceChars, FALSE), 0, -1),
             ReGreedy(ReIn({"\n", ":"}, FALSE), 1, -1),
             ReGroup(2, ReLazy(ReIn({}, TRUE), 0, -1)),
             ReLookahead(ReCat(<< ReLit(<<"\n">>),
                                  ReGreedy(ReIn(SpaceChars, FALSE), 0, -1),
                                  ReAlt(Append(section_headers, ReEol)) >>)) >>)

\* line 1306: [,\n;|/•·]
section_delimiters == ReIn({",", "\n", ";", "|", "/", "BULLET", "MIDDOT"}, FALSE)

\* line 1328: [,/;\n•·]
text_delimiters == ReIn({",", "/", ";", "\n", "BULLET", "MIDDOT"}, FALSE)

\* lines 1314, 1336: [^\w\s-]
special_characters == ReIn(WordChars \cup SpaceChars \cup {"-"}, TRUE)

\* lines 1320, 1342: \s*\d+(\.\d+)*\b
version_number ==
    ReCat(<<ReGreedy(ReIn(SpaceChars, FALSE), 0, -1), ReGreedy(ReIn(DigitSet, FALSE), 1, -1), ReGreedy(ReGroup(1, ReCat(<<ReLit(<<".">>), ReGreedy(ReIn(DigitSet, FALSE), 1, -1)>>)), 0, -1), ReWordB>>)

\* ' '.join(p.split())
JoinWords(p) == Strip(CollapseSpaces(p, 1))

\* lines 1308-1324 and 1330-1346: the skills (none or one) that a part adds
part_skills(part) ==
    LET stripped == Strip(part)
        cleaned == Strip(JoinWords(ReSub(special_characters, <<" ">>, stripped)))
        base_skill == Strip(ReSub(version_number, <<>>, cleaned))
        normalized == normalize_skill(base_skill)
    IN IF stripped = <<>> THEN {}
       ELSE IF ~(Len(cleaned) > 1) THEN {}
       ELSE IF base_skill = <<>> THEN {}
       ELSE IF normalized = <<>> THEN {}
       ELSE {normalized}

\* the skills of all the parts
parts_skills(parts) == UNION {part_skills(parts[k]) : k \in DOMAIN parts}

\* lines 1298-1324: the parts of every matched section
section_skills(text_lower) ==
    LET section_matches == FindIter(section_pattern, text_lower, 1)
    IN UNION {parts_skills(ReSplit(section_delimiters, GroupText(text_lower, section_matches[k], 2)))
                 : k \in DOMAIN section_matches}

\* text.replace("|", ",")
ReplacePipes(text) == AsSeq([i \in DOMAIN text |-> IF text[i] = "|" THEN "," ELSE text[i]], Len(text))

\* lines 1326-1346: the parts of the whole text
text_skills(text) == parts_skills(ReSplit(text_delimiters, ReplacePipes(text)))

\* the printable ASCII characters, from U+0020 on
Ascii ==
    << " ","!","\"","#","$","%","&","'","(",")","*","+",",","-",".","/","0","1","2","3","4","5","6","7","8","9",":",";","<","=",">","?","@","A","B","C","D","E","F","G","H","I","J","K","L","M","N","O",
       "P","Q","R","S","T","U","V","W","X","Y","Z","[","\\","]","^","_","BACKTICK","a","b","c","d","e","f","g","h","i","j","k","l","m","n","o","p","q","r","s","t","u","v","w","x","y","z","{","|","}","~" >>

\* ord(c)
CodePoint(c) ==
    CASE c = "\t" -> 9
      [] c = "\n" -> 10
      [] c = "\r" -> 13
      [] c = "MIDDOT" -> 183
      [] c = "BULLET" -> 8226
      [] OTHER -> 31 + (CHOOSE i \in DOMAIN Ascii : Ascii[i] = c)

\* a < b for two str
StrLess(a, b) ==
    LET differ == {i \in 1..Min({Len(a), Len(b)}) : a[i] # b[i]}
    IN IF differ = {} THEN Len(a) < Len(b)
       ELSE CodePoint(a[Min(differ)]) < CodePoint(b[Min(differ)])

RECURSIVE Sorted(_)
\* sorted(S) for a set of str
Sorted(S) ==
    IF S = {} THEN <<>>
    ELSE LET least == CHOOSE x \in S : \A y \in S : x = y \/ StrLess(x, y)
         IN <<least>> \o Sorted(S \ {least})

\* clean_skills without the length test of line 1349
clean_skills_keep_short(all_skills) == Sorted({Capitalize(s) : s \in all_skills})

\* lines 1349-1352: capitalized, entries of one character dropped, sorted
clean_skills(all_skills) == Sorted({Capitalize(s) : s \in {s \in all_skills : Len(s) > 1}})

\* lines 1263-1352
extract_technical_skills(text) ==
    IF text.t # "str" THEN Raise("AttributeError")
    ELSE Return(clean_skills(section_skills(Lower(text.v)) \cup text_skills(text.v)))

(***************************************************************************)
(* Programming languages (resume_helper.py:1014-1074)                      *)
(***************************************************************************)
\* lines 1017-1033, in the order of the dict
PROGRAMMING_LANGUAGES ==
    <<
      [canonical |-> <<"c">>, aliases |-> <<<<"c"," ","l","a","n","g","u","a","g","e">>, <<"c"," ","l","a","n","g">>>>],
      [canonical |-> <<"c","+","+">>, aliases |-> <<<<"c","p","p">>, <<"c"," ","p","l","u","s"," ","p","l","u","s">>>>],
      [canonical |-> <<"j","a","v","a">>, aliases |-> <<<<"c","o","r","e"," ","j","a","v","a">>, <<"a","d","v","a","n","c","e","d"," ","j","a","v","a">>>>],
      [canonical |-> <<"p","y","t","h","o","n">>, aliases |-> <<<<"p","y","t","h","o","n"," ","p","r","o","g","r","a","m","m","i","n","g">>>>],
      [canonical |-> <<"j","a","v","a","s","c","r","i","p","t">>, aliases |-> <<<<"j","s">>, <<"n","o","d","e","j","s">>, <<"n","o","d","e"," ","j","s">>>>],
      [canonical |-> <<"t","y","p","e","s","c","r","i","p","t">>, aliases |-> <<>>],
      [canonical |-> <<"r","u","b","y">>, aliases |-> <<>>],
      [canonical |-> <<"g","o">>, aliases |-> <<<<"g","o","l","a","n","g">>>>],
      [canonical |-> <<"s","w","i","f","t">>, aliases |-> <<>>],
      [canonical |-> <<"k","o","t","l","i","n">>, aliases |-> <<>>],
      [canonical |-> <<"p","h","p">>, aliases |-> <<<<"p","h","p"," ","l","a","n","g","u","a","g","e">>>>],
      [canonical |-> <<"r">>, aliases |-> <<<<"r"," ","l","a","n","g","u","a","g","e">>>>],
      [canonical |-> <<"m","a","t","l","a","b">>, aliases |-> <<>>],
      [canonical |-> <<"s","c","a","l","a">>, aliases |-> <<>>],
      [canonical |-> <<"p","e","r","l">>, aliases |-> <<>>]
    >>

\* lines 1036-1040: the keys of the dict, each canonical name and each alias
PROGRAMMING_SYNONYMS ==
    UNION {{[syn |-> PROGRAMMING_LANGUAGES[k].canonical, canonical |-> PROGRAMMING_LANGUAGES[k].canonical]}
           \cup {[syn |-> PROGRAMMING_LANGUAGES[k].aliases[a], canonical |-> PROGRAMMING_LANGUAGES[k].canonical] :
                    a \in DOMAIN PROGRAMMING_LANGUAGES[k].aliases} : k \in DOMAIN PROGRAMMING_LANGUAGES}

\* line 1066: \b(c|c\+\+|java|python|javascript|typescript|php|r|go|ruby|swift|kotlin|scala|perl)\b
language_pattern ==
    ReCat(<<ReWordB, ReGroup(1, ReAlt(<<ReLit(<<"c">>), ReLit(<<"c","+","+">>), ReLit(<<"j","a","v","a">>), ReLit(<<"p","y","t","h","o","n">>), ReLit(<<"j","a","v","a","s","c","r","i","p","t">>), ReLit(<<"t","y","p","e","s","c","r","i","p","t">>), ReLit(<<"p","h","p">>), ReLit(<<"r">>), ReLit(<<"g","o">>), ReLit(<<"r","u","b","y">>), ReLit(<<"s","w","i","f","t">>), ReLit(<<"k","o","t","l","i","n">>), ReLit(<<"s","c","a","l","a">>), ReLit(<<"p","e","r","l">>)>>)), ReWordB>>)

\* lines 1052-1063: the capitalized names found by substring and by pattern
found(text) ==
    {Capitalize(PROGRAMMING_LANGUAGES[k].canonical) :
        k \in {k \in DOMAIN PROGRAMMING_LANGUAGES : Contains(text, PROGRAMMING_LANGUAGES[k].canonical)}}
    \cup {Capitalize(e.canonical) : e \in {e \in PROGRAMMING_SYNONYMS : Contains(text, e.syn)}}
    \cup {Capitalize(GroupText(text, m, 1)) : m \in Range(FindIter(language_pattern, text, 1))}

\* cleaned without the test of lines 1069-1071
cleaned_unfiltered(items, text) == items

\* lines 1067-1072: "R" is kept only with "r ", " r," or "language" in the text
cleaned(items, text) ==
    {item \in items :
        item = <<"R">> =>
            ~(/\ ~Contains(text, <<"r", " ">>)
              /\ ~Contains(text, <<" ", "r", ",">>)
              /\ ~Contains(text, <<"l","a","n","g","u","a","g","e">>))}

\* lines 1046-1074
extract_programming_languages(text) ==
    IF text.t # "str" THEN Raise("AttributeError")
    ELSE Return(Sorted(cleaned(found(Lower(text.v)), Lower(text.v))))

(***************************************************************************)
(* Career guidance (guidance_helper.py)                                    *)
(***************************************************************************)
\* lines 363-372 and 450-459: the keys of a guidance
guidance_keys ==
    <<"technical_skills", "missing_skills", "learning_paths", "project_ideas", "certificate_recommendations", "role_matching", "weak_skills", "recommended_tech_stacks", "career_clarity_summary", "weekly_schedule">>

\* the sections that line 462 tests: every key but career_clarity_summary
list_sections == SelectSeq(guidance_keys, LAMBDA k : k # "career_clarity_summary")

\* lines 31-51, 112-211, 229-259, 283-360: the alignments in the order they are
\* tested (the last is the else branch), each with the sections it determines
alignments ==
    <<
      [keywords |-> <<<<"r","e","a","c","t">>, <<"j","a","v","a","s","c","r","i","p","t">>, <<"f","r","o","n","t","e","n","d">>, <<"h","t","m","l">>, <<"c","s","s">>>>,
       primary_alignment |-> <<"W","e","b"," ","D","e","v","e","l","o","p","m","e","n","t">>,
       aligned_roles |-> <<<<"F","r","o","n","t","e","n","d"," ","D","e","v","e","l","o","p","e","r">>, <<"F","u","l","l"," ","S","t","a","c","k"," ","D","e","v","e","l","o","p","e","r">>>>,
       learning_paths |-> PyList(<<PyDict(("track" :> PyStr(<<"W","e","b"," ","D","e","v","e","l","o","p","m","e","n","t">>)) @@ ("topics" :> PyList(<<PyStr(<<"H","T","M","L"," ","&"," ","C","S","S"," ","f","u","n","d","a","m","e","n","t","a","l","s">>), PyStr(<<"M","o","d","e","r","n"," ","J","a","v","a","S","c","r","i","p","t"," ","(","E","S","6","+",")">>), PyStr(<<"R","e","a","c","t"," ","b","a","s","i","c","s"," ","(","c","o","m","p","o","n","e","n","t","s",","," ","p","r","o","p","s",","," ","s","t","a","t","e",")">>), PyStr(<<"R","E","S","T"," ","A","P","I"," ","i","n","t","e","g","r","a","t","i","o","n">>), PyStr(<<"B","a","s","i","c"," ","b","a","c","k","e","n","d"," ","(","N","o","d","e",".","j","s"," ","/"," ","D","j","a","n","g","o"," ","/"," ","F","l","a","s","k",")">>)>>)) @@ ("tools" :> PyList(<<PyStr(<<"V","S"," ","C","o","d","e">>), PyStr(<<"G","i","t"," ","&"," ","G","i","t","H","u","b">>), PyStr(<<"C","h","r","o","m","e"," ","D","e","v","T","o","o","l","s">>)>>)) @@ ("exercises" :> PyList(<<PyStr(<<"T","a","k","e"," ","h","a","n","d","w","r","i","t","t","e","n"," ","n","o","t","e","s"," ","o","n"," ","e","a","c","h"," ","t","o","p","i","c"," ","a","n","d"," ","s","u","m","m","a","r","i","z","e"," ","i","n"," ","y","o","u","r"," ","o","w","n"," ","w","o","r","d","s">>), PyStr(<<"I","m","p","l","e","m","e","n","t"," ","a","t"," ","l","e","a","s","t"," ","o","n","e"," ","m","i","n","i","-","e","x","a","m","p","l","e"," ","p","e","r"," ","t","o","p","i","c">>), PyStr(<<"P","u","s","h"," ","e","v","e","r","y"," ","e","x","p","e","r","i","m","e","n","t"," ","t","o"," ","G","i","t","H","u","b"," ","w","i","t","h"," ","c","l","e","a","r"," ","c","o","m","m","i","t","s">>)>>)) @@ ("projects" :> PyList(<<PyStr(<<"P","e","r","s","o","n","a","l"," ","p","o","r","t","f","o","l","i","o"," ","w","e","b","s","i","t","e">>), PyStr(<<"T","a","s","k"," ","m","a","n","a","g","e","r"," ","a","p","p"," ","w","i","t","h"," ","l","o","g","i","n">>), PyStr(<<"M","i","n","i"," ","b","l","o","g"," ","o","r"," ","n","o","t","e","s"," ","a","p","p"," ","w","i","t","h"," ","C","R","U","D">>)>>)) @@ ("estimated_time_weeks" :> PyInt(6)))>>),
       certs |-> PyList(<<PyDict(("name" :> PyStr(<<"G","i","t","H","u","b"," ","F","o","u","n","d","a","t","i","o","n","s"," ","/"," ","A","n","y"," ","G","i","t"," ","c","o","u","r","s","e">>)) @@ ("value_level" :> PyStr(<<"m","e","d","i","u","m">>)) @@ ("recommendation" :> PyStr(<<"p","u","r","s","u","e">>)) @@ ("reason" :> PyStr(<<"C","o","n","f","i","r","m","s"," ","y","o","u","r"," ","u","n","d","e","r","s","t","a","n","d","i","n","g"," ","o","f"," ","G","i","t"," ","a","n","d"," ","G","i","t","H","u","b"," ","w","o","r","k","f","l","o","w","s",".">>))), PyDict(("name" :> PyStr(<<"A","W","S"," ","C","l","o","u","d"," ","P","r","a","c","t","i","t","i","o","n","e","r"," ","o","r"," ","e","q","u","i","v","a","l","e","n","t"," ","c","l","o","u","d"," ","f","u","n","d","a","m","e","n","t","a","l","s">>)) @@ ("value_level" :> PyStr(<<"h","i","g","h">>)) @@ ("recommendation" :> PyStr(<<"p","u","r","s","u","e">>)) @@ ("reason" :> PyStr(<<"G","o","o","d"," ","e","n","t","r","y","-","l","e","v","e","l"," ","c","e","r","t","i","f","i","c","a","t","e"," ","f","o","r"," ","p","r","o","v","i","n","g"," ","c","l","o","u","d"," ","f","u","n","d","a","m","e","n","t","a","l","s",".">>))), PyDict(("name" :> PyStr(<<"G","e","n","e","r","i","c"," ","'","M","S"," ","O","f","f","i","c","e","'"," ","c","o","u","r","s","e">>)) @@ ("value_level" :> PyStr(<<"l","o","w">>)) @@ ("recommendation" :> PyStr(<<"a","v","o","i","d">>)) @@ ("reason" :> PyStr(<<"T","o","o"," ","b","a","s","i","c"," ","f","o","r"," ","I","T"," ","h","i","r","i","n","g",";"," ","b","e","t","t","e","r"," ","t","o"," ","f","o","c","u","s"," ","o","n"," ","t","e","c","h","n","i","c","a","l"," ","c","e","r","t","i","f","i","c","a","t","e","s",".">>)))>>),
       recommended_tech_stacks |-> PyList(<<PyDict(("stack" :> PyStr(<<"M","E","R","N"," ","(","M","o","n","g","o","D","B",","," ","E","x","p","r","e","s","s",","," ","R","e","a","c","t",","," ","N","o","d","e",".","j","s",")">>)) @@ ("reason" :> PyStr(<<"G","r","e","a","t"," ","f","u","l","l","-","s","t","a","c","k"," ","p","a","t","h"," ","i","f"," ","y","o","u"," ","a","r","e"," ","a","l","r","e","a","d","y"," ","c","o","m","f","o","r","t","a","b","l","e"," ","w","i","t","h"," ","J","a","v","a","S","c","r","i","p","t",".">>)))>>),
       career_clarity_summary |-> PyDict(("primary_alignment" :> PyStr(<<"W","e","b"," ","D","e","v","e","l","o","p","m","e","n","t">>)) @@ ("aligned_roles" :> PyList(<<PyStr(<<"F","r","o","n","t","e","n","d"," ","D","e","v","e","l","o","p","e","r">>), PyStr(<<"F","u","l","l"," ","S","t","a","c","k"," ","D","e","v","e","l","o","p","e","r">>)>>)) @@ ("roles_to_avoid" :> PyList(<<PyStr(<<"L","o","w","-","l","e","v","e","l"," ","E","m","b","e","d","d","e","d"," ","/"," ","F","i","r","m","w","a","r","e"," ","r","o","l","e","s">>)>>)) @@ ("reasoning" :> PyStr(<<"A","l","i","g","n","m","e","n","t"," ","i","n","f","e","r","r","e","d"," ","f","r","o","m"," ","y","o","u","r"," ","c","u","r","r","e","n","t"," ","s","k","i","l","l","s"," ","a","n","d"," ","a","r","e","a","s"," ","o","f"," ","i","n","t","e","r","e","s","t","."," ","U","s","e"," ","t","h","i","s"," ","a","s"," ","a"," ","d","i","r","e","c","t","i","o","n",","," ","n","o","t"," ","a"," ","h","a","r","d"," ","l","i","m","i","t",".">>))),
       weeks |-> PyList(<<PyDict(("week" :> PyInt(1)) @@ ("focus" :> PyStr(<<"F","o","c","u","s"," ","o","n",":"," ","W","e","b"," ","D","e","v","e","l","o","p","m","e","n","t"," ","f","u","n","d","a","m","e","n","t","a","l","s"," ","(","w","e","e","k"," ","1",")">>)) @@ ("topics" :> PyList(<<PyStr(<<"H","T","M","L"," ","&"," ","C","S","S"," ","f","u","n","d","a","m","e","n","t","a","l","s">>)>>)) @@ ("practice_tasks" :> PyList(<<PyStr(<<"C","r","e","a","t","e"," ","n","o","t","e","s"," ","a","n","d"," ","m","i","n","d","-","m","a","p","s"," ","f","o","r"," ","e","a","c","h"," ","t","o","p","i","c">>), PyStr(<<"I","m","p","l","e","m","e","n","t"," ","a","t"," ","l","e","a","s","t"," ","o","n","e"," ","s","m","a","l","l"," ","e","x","a","m","p","l","e"," ","p","e","r"," ","t","o","p","i","c">>)>>)) @@ ("checkpoints" :> PyList(<<PyStr(<<"A","b","l","e"," ","t","o"," ","e","x","p","l","a","i","n"," ","e","a","c","h"," ","t","o","p","i","c"," ","i","n"," ","s","i","m","p","l","e"," ","w","o","r","d","s">>), PyStr(<<"P","u","s","h","e","d"," ","p","r","a","c","t","i","c","e"," ","c","o","d","e"," ","t","o"," ","G","i","t","H","u","b">>)>>))), PyDict(("week" :> PyInt(2)) @@ ("focus" :> PyStr(<<"F","o","c","u","s"," ","o","n",":"," ","W","e","b"," ","D","e","v","e","l","o","p","m","e","n","t"," ","f","u","n","d","a","m","e","n","t","a","l","s"," ","(","w","e","e","k"," ","2",")">>)) @@ ("topics" :> PyList(<<PyStr(<<"M","o","d","e","r","n"," ","J","a","v","a","S","c","r","i","p","t"," ","(","E","S","6","+",")">>)>>)) @@ ("practice_tasks" :> PyList(<<PyStr(<<"C","r","e","a","t","e"," ","n","o","t","e","s"," ","a","n","d"," ","m","i","n","d","-","m","a","p","s"," ","f","o","r"," ","e","a","c","h"," ","t","o","p","i","c">>), PyStr(<<"I","m","p","l","e","m","e","n","t"," ","a","t"," ","l","e","a","s","t"," ","o","n","e"," ","s","m","a","l","l"," ","e","x","a","m","p","l","e"," ","p","e","r"," ","t","o","p","i","c">>)>>)) @@ ("checkpoints" :> PyList(<<PyStr(<<"A","b","l","e"," ","t","o"," ","e","x","p","l","a","i","n"," ","e","a","c","h"," ","t","o","p","i","c"," ","i","n"," ","s","i","m","p","l","e"," ","w","o","r","d","s">>), PyStr(<<"P","u","s","h","e","d"," ","p","r","a","c","t","i","c","e"," ","c","o","d","e"," ","t","o"," ","G","i","t","H","u","b">>)>>))), PyDict(("week" :> PyInt(3)) @@ ("focus" :> PyStr(<<"F","o","c","u","s"," ","o","n",":"," ","W","e","b"," ","D","e","v","e","l","o","p","m","e","n","t"," ","f","u","n","d","a","m","e","n","t","a","l","s"," ","(","w","e","e","k"," ","3",")">>)) @@ ("topics" :> PyList(<<PyStr(<<"R","e","a","c","t"," ","b","a","s","i","c","s"," ","(","c","o","m","p","o","n","e","n","t","s",","," ","p","r","o","p","s",","," ","s","t","a","t","e",")">>)>>)) @@ ("practice_tasks" :> PyList(<<PyStr(<<"C","r","e","a","t","e"," ","n","o","t","e","s"," ","a","n","d"," ","m","i","n","d","-","m","a","p","s"," ","f","o","r"," ","e","a","c","h"," ","t","o","p","i","c">>), PyStr(<<"I","m","p","l","e","m","e","n","t"," ","a","t"," ","l","e","a","s","t"," ","o","n","e"," ","s","m","a","l","l"," ","e","x","a","m","p","l","e"," ","p","e","r"," ","t","o","p","i","c">>)>>)) @@ ("checkpoints" :> PyList(<<PyStr(<<"A","b","l","e"," ","t","o"," ","e","x","p","l","a","i","n"," ","e","a","c","h"," ","t","o","p","i","c"," ","i","n"," ","s","i","m","p","l","e"," ","w","o","r","d","s">>), PyStr(<<"P","u","s","h","e","d"," ","p","r","a","c","t","i","c","e"," ","c","o","d","e"," ","t","o"," ","G","i","t","H","u","b">>)>>))), PyDict(("week" :> PyInt(4)) @@ ("focus" :> PyStr(<<"F","o","c","u","s"," ","o","n",":"," ","W","e","b"," ","D","e","v","e","l","o","p","m","e","n","t"," ","f","u","n","d","a","m","e","n","t","a","l","s"," ","(","w","e","e","k"," ","4",")">>)) @@ ("topics" :> PyList(<<PyStr(<<"R","E","S","T"," ","A","P","I"," ","i","n","t","e","g","r","a","t","i","o","n">>)>>)) @@ ("practice_tasks" :> PyList(<<PyStr(<<"C","r","e","a","t","e"," ","n","o","t","e","s"," ","a","n","d"," ","m","i","n","d","-","m","a","p","s"," ","f","o","r"," ","e","a","c","h"," ","t","o","p","i","c">>), PyStr(<<"I","m","p","l","e","m","e","n","t"," ","a","t"," ","l","e","a","s","t"," ","o","n","e"," ","s","m","a","l","l"," ","e","x","a","m","p","l","e"," ","p","e","r"," ","t","o","p","i","c">>)>>)) @@ ("checkpoints" :> PyList(<<PyStr(<<"A","b","l","e"," ","t","o"," ","e","x","p","l","a","i","n"," ","e","a","c","h"," ","t","o","p","i","c"," ","i","n"," ","s","i","m","p","l","e"," ","w","o","r","d","s">>), PyStr(<<"P","u","s","h","e","d"," ","p","r","a","c","t","i","c","e"," ","c","o","d","e"," ","t","o"," ","G","i","t","H","u","b">>)>>)))>>)],
      [keywords |-> <<<<"p","y","t","h","o","n">>, <<"d","j","a","n","g","o">>, <<"f","l","a","s","k">>, <<"a","p","i">>, <<"b","a","c","k","e","n","d">>>>,
       primary_alignment |-> <<"B","a","c","k","e","n","d"," ","D","e","v","e","l","o","p","m","e","n","t">>,
       aligned_roles |-> <<<<"B","a","c","k","e","n","d"," ","D","e","v","e","l","o","p","e","r">>, <<"F","u","l","l"," ","S","t","a","c","k"," ","D","e","v","e","l","o","p","e","r">>>>,
       learning_paths |-> PyList(<<PyDict(("track" :> PyStr(<<"B","a","c","k","e","n","d"," ","D","e","v","e","l","o","p","m","e","n","t">>)) @@ ("topics" :> PyList(<<PyStr(<<"P","r","o","g","r","a","m","m","i","n","g"," ","f","u","n","d","a","m","e","n","t","a","l","s"," ","&"," ","p","r","o","b","l","e","m"," ","s","o","l","v","i","n","g">>), PyStr(<<"D","a","t","a"," ","s","t","r","u","c","t","u","r","e","s"," ","&"," ","a","l","g","o","r","i","t","h","m","s"," ","b","a","s","i","c","s">>), PyStr(<<"V","e","r","s","i","o","n"," ","c","o","n","t","r","o","l"," ","w","i","t","h"," ","G","i","t">>), PyStr(<<"B","u","i","l","d","i","n","g"," ","a","n","d"," ","c","o","n","s","u","m","i","n","g"," ","R","E","S","T"," ","A","P","I","s">>)>>)) @@ ("tools" :> PyList(<<PyStr(<<"V","S"," ","C","o","d","e">>), PyStr(<<"G","i","t">>), PyStr(<<"L","e","e","t","C","o","d","e"," ","/"," ","C","o","d","e","C","h","e","f">>)>>)) @@ ("exercises" :> PyList(<<PyStr(<<"T","a","k","e"," ","h","a","n","d","w","r","i","t","t","e","n"," ","n","o","t","e","s"," ","o","n"," ","e","a","c","h"," ","t","o","p","i","c"," ","a","n","d"," ","s","u","m","m","a","r","i","z","e"," ","i","n"," ","y","o","u","r"," ","o","w","n"," ","w","o","r","d","s">>), PyStr(<<"I","m","p","l","e","m","e","n","t"," ","a","t"," ","l","e","a","s","t"," ","o","n","e"," ","m","i","n","i","-","e","x","a","m","p","l","e"," ","p","e","r"," ","t","o","p","i","c">>), PyStr(<<"P","u","s","h"," ","e","v","e","r","y"," ","e","x","p","e","r","i","m","e","n","t"," ","t","o"," ","G","i","t","H","u","b"," ","w","i","t","h"," ","c","l","e","a","r"," ","c","o","m","m","i","t","s">>)>>)) @@ ("projects" :> PyList(<<PyStr(<<"C","L","I"," ","o","r"," ","d","e","s","k","t","o","p"," ","u","t","i","l","i","t","y"," ","a","p","p">>), PyStr(<<"S","m","a","l","l"," ","R","E","S","T"," ","A","P","I"," ","s","e","r","v","i","c","e">>), PyStr(<<"P","e","r","s","o","n","a","l"," ","k","n","o","w","l","e","d","g","e"," ","m","a","n","a","g","e","m","e","n","t"," ","t","o","o","l">>)>>)) @@ ("estimated_time_weeks" :> PyInt(6)))>>),
       certs |-> PyList(<<PyDict(("name" :> PyStr(<<"G","i","t","H","u","b"," ","F","o","u","n","d","a","t","i","o","n","s"," ","/"," ","A","n","y"," ","G","i","t"," ","c","o","u","r","s","e">>)) @@ ("value_level" :> PyStr(<<"m","e","d","i","u","m">>)) @@ ("recommendation" :> PyStr(<<"p","u","r","s","u","e">>)) @@ ("reason" :> PyStr(<<"C","o","n","f","i","r","m","s"," ","y","o","u","r"," ","u","n","d","e","r","s","t","a","n","d","i","n","g"," ","o","f"," ","G","i","t"," ","a","n","d"," ","G","i","t","H","u","b"," ","w","o","r","k","f","l","o","w","s",".">>))), PyDict(("name" :> PyStr(<<"A","W","S"," ","C","l","o","u","d"," ","P","r","a","c","t","i","t","i","o","n","e","r"," ","o","r"," ","e","q","u","i","v","a","l","e","n","t"," ","c","l","o","u","d"," ","f","u","n","d","a","m","e","n","t","a","l","s">>)) @@ ("value_level" :> PyStr(<<"h","i","g","h">>)) @@ ("recommendation" :> PyStr(<<"p","u","r","s","u","e">>)) @@ ("reason" :> PyStr(<<"G","o","o","d"," ","e","n","t","r","y","-","l","e","v","e","l"," ","c","e","r","t","i","f","i","c","a","t","e"," ","f","o","r"," ","p","r","o","v","i","n","g"," ","c","l","o","u","d"," ","f","u","n","d","a","m","e","n","t","a","l","s",".">>))), PyDict(("name" :> PyStr(<<"G","e","n","e","r","i","c"," ","'","M","S"," ","O","f","f","i","c","e","'"," ","c","o","u","r","s","e">>)) @@ ("value_level" :> PyStr(<<"l","o","w">>)) @@ ("recommendation" :> PyStr(<<"a","v","o","i","d">>)) @@ ("reason" :> PyStr(<<"T","o","o"," ","b","a","s","i","c"," ","f","o","r"," ","I","T"," ","h","i","r","i","n","g",";"," ","b","e","t","t","e","r"," ","t","o"," ","f","o","c","u","s"," ","o","n"," ","t","e","c","h","n","i","c","a","l"," ","c","e","r","t","i","f","i","c","a","t","e","s",".">>)))>>),
       recommended_tech_stacks |-> PyList(<<PyDict(("stack" :> PyStr(<<"P","y","t","h","o","n"," ","+"," ","F","a","s","t","A","P","I"," ","/"," ","D","j","a","n","g","o">>)) @@ ("reason" :> PyStr(<<"P","y","t","h","o","n"," ","h","a","s"," ","s","t","r","o","n","g"," ","e","c","o","s","y","s","t","e","m"," ","s","u","p","p","o","r","t"," ","f","o","r"," ","A","P","I","s"," ","a","n","d"," ","b","a","c","k","e","n","d"," ","s","e","r","v","i","c","e","s",".">>)))>>),
       career_clarity_summary |-> PyDict(("primary_alignment" :> PyStr(<<"B","a","c","k","e","n","d"," ","D","e","v","e","l","o","p","m","e","n","t">>)) @@ ("aligned_roles" :> PyList(<<PyStr(<<"B","a","c","k","e","n","d"," ","D","e","v","e","l","o","p","e","r">>), PyStr(<<"F","u","l","l"," ","S","t","a","c","k"," ","D","e","v","e","l","o","p","e","r">>)>>)) @@ ("roles_to_avoid" :> PyList(<<PyStr(<<"L","o","w","-","l","e","v","e","l"," ","E","m","b","e","d","d","e","d"," ","/"," ","F","i","r","m","w","a","r","e"," ","r","o","l","e","s">>)>>)) @@ ("reasoning" :> PyStr(<<"A","l","i","g","n","m","e","n","t"," ","i","n","f","e","r","r","e","d"," ","f","r","o","m"," ","y","o","u","r"," ","c","u","r","r","e","n","t"," ","s","k","i","l","l","s"," ","a","n","d"," ","a","r","e","a","s"," ","o","f"," ","i","n","t","e","r","e","s","t","."," ","U","s","e"," ","t","h","i","s"," ","a","s"," ","a"," ","d","i","r","e","c","t","i","o","n",","," ","n","o","t"," ","a"," ","h","a","r","d"," ","l","i","m","i","t",".">>))),
       weeks |-> PyList(<<PyDict(("week" :> PyInt(1)) @@ ("focus" :> PyStr(<<"F","o","c","u","s"," ","o","n",":"," ","B","a","c","k","e","n","d"," ","D","e","v","e","l","o","p","m","e","n","t"," ","f","u","n","d","a","m","e","n","t","a","l","s"," ","(","w","e","e","k"," ","1",")">>)) @@ ("topics" :> PyList(<<PyStr(<<"P","r","o","g","r","a","m","m","i","n","g"," ","f","u","n","d","a","m","e","n","t","a","l","s"," ","&"," ","p","r","o","b","l","e","m"," ","s","o","l","v","i","n","g">>)>>)) @@ ("practice_tasks" :> PyList(<<PyStr(<<"C","r","e","a","t","e"," ","n","o","t","e","s"," ","a","n","d"," ","m","i","n","d","-","m","a","p","s"," ","f","o","r"," ","e","a","c","h"," ","t","o","p","i","c">>), PyStr(<<"I","m","p","l","e","m","e","n","t"," ","a","t"," ","l","e","a","s","t"," ","o","n","e"," ","s","m","a","l","l"," ","e","x","a","m","p","l","e"," ","p","e","r"," ","t","o","p","i","c">>)>>)) @@ ("checkpoints" :> PyList(<<PyStr(<<"A","b","l","e"," ","t","o"," ","e","x","p","l","a","i","n"," ","e","a","c","h"," ","t","o","p","i","c"," ","i","n"," ","s","i","m","p","l","e"," ","w","o","r","d","s">>), PyStr(<<"P","u","s","h","e","d"," ","p","r","a","c","t","i","c","e"," ","c","o","d","e"," ","t","o"," ","G","i","t","H","u","b">>)>>))), PyDict(("week" :> PyInt(2)) @@ ("focus" :> PyStr(<<"F","o","c","u","s"," ","o","n",":"," ","B","a","c","k","e","n","d"," ","D","e","v","e","l","o","p","m","e","n","t"," ","f","u","n","d","a","m","e","n","t","a","l","s"," ","(","w","e","e","k"," ","2",")">>)) @@ ("topics" :> PyList(<<PyStr(<<"D","a","t","a"," ","s","t","r","u","c","t","u","r","e","s"," ","&"," ","a","l","g","o","r","i","t","h","m","s"," ","b","a","s","i","c","s">>)>>)) @@ ("practice_tasks" :> PyList(<<PyStr(<<"C","r","e","a","t","e"," ","n","o","t","e","s"," ","a","n","d"," ","m","i","n","d","-","m","a","p","s"," ","f","o","r"," ","e","a","c","h"," ","t","o","p","i","c">>), PyStr(<<"I","m","p","l","e","m","e","n","t"," ","a","t"," ","l","e","a","s","t"," ","o","n","e"," ","s","m","a","l","l"," ","e","x","a","m","p","l","e"," ","p","e","r"," ","t","o","p","i","c">>)>>)) @@ ("checkpoints" :> PyList(<<PyStr(<<"A","b","l","e"," ","t","o"," ","e","x","p","l","a","i","n"," ","e","a","c","h"," ","t","o","p","i","c"," ","i","n"," ","s","i","m","p","l","e"," ","w","o","r","d","s">>), PyStr(<<"P","u","s","h","e","d"," ","p","r","a","c","t","i","c","e"," ","c","o","d","e"," ","t","o"," ","G","i","t","H","u","b">>)>>))), PyDict(("week" :> PyInt(3)) @@ ("focus" :> PyStr(<<"F","o","c","u","s"," ","o","n",":"," ","B","a","c","k","e","n","d"," ","D","e","v","e","l","o","p","m","e","n","t"," ","f","u","n","d","a","m","e","n","t","a","l","s"," ","(","w","e","e","k"," ","3",")">>)) @@ ("topics" :> PyList(<<PyStr(<<"V","e","r","s","i","o","n"," ","c","o","n","t","r","o","l"," ","w","i","t","h"," ","G","i","t">>)>>)) @@ ("practice_tasks" :> PyList(<<PyStr(<<"C","r","e","a","t","e"," ","n","o","t","e","s"," ","a","n","d"," ","m","i","n","d","-","m","a","p","s"," ","f","o","r"," ","e","a","c","h"," ","t","o","p","i","c">>), PyStr(<<"I","m","p","l","e","m","e","n","t"," ","a","t"," ","l","e","a","s","t"," ","o","n","e"," ","s","m","a","l","l"," ","e","x","a","m","p","l","e"," ","p","e","r"," ","t","o","p","i","c">>)>>)) @@ ("checkpoints" :> PyList(<<PyStr(<<"A","b","l","e"," ","t","o"," ","e","x","p","l","a","i","n"," ","e","a","c","h"," ","t","o","p","i","c"," ","i","n"," ","s","i","m","p","l","e"," ","w","o","r","d","s">>), PyStr(<<"P","u","s","h","e","d"," ","p","r","a","c","t","i","c","e"," ","c","o","d","e"," ","t","o"," ","G","i","t","H","u","b">>)>>))), PyDict(("week" :> PyInt(4)) @@ ("focus" :> PyStr(<<"F","o","c","u","s"," ","o","n",":"," ","B","a","c","k","e","n","d"," ","D","e","v","e","l","o","p","m","e","n","t"," ","f","u","n","d","a","m","e","n","t","a","l","s"," ","(","w","e","e","k"," ","4",")">>)) @@ ("topics" :> PyList(<<PyStr(<<"B","u","i","l","d","i","n","g"," ","a","n","d"," ","c","o","n","s","u","m","i","n","g"," ","R","E","S","T"," ","A","P","I","s">>)>>)) @@ ("practice_tasks" :> PyList(<<PyStr(<<"C","r","e","a","t","e"," ","n","o","t","e","s"," ","a","n","d"," ","m","i","n","d","-","m","a","p","s"," ","f","o","r"," ","e","a","c","h"," ","t","o","p","i","c">>), PyStr(<<"I","m","p","l","e","m","e","n","t"," ","a","t"," ","l","e","a","s","t"," ","o","n","e"," ","s","m","a","l","l"," ","e","x","a","m","p","l","e"," ","p","e","r"," ","t","o","p","i","c">>)>>)) @@ ("checkpoints" :> PyList(<<PyStr(<<"A","b","l","e"," ","t","o"," ","e","x","p","l","a","i","n"," ","e","a","c","h"," ","t","o","p","i","c"," ","i","n"," ","s","i","m","p","l","e"," ","w","o","r","d","s">>), PyStr(<<"P","u","s","h","e","d"," ","p","r","a","c","t","i","c","e"," ","c","o","d","e"," ","t","o"," ","G","i","t","H","u","b">>)>>)))>>)],
      [keywords |-> <<<<"p","a","n","d","a","s">>, <<"n","u","m","p","y">>, <<"d","a","t","a">>, <<"s","q","l">>, <<"a","n","a","l","y","t","i","c","s">>>>,
       primary_alignment |-> <<"D","a","t","a"," ","S","c","i","e","n","c","e">>,
       aligned_roles |-> <<<<"D","a","t","a"," ","A","n","a","l","y","s","t">>, <<"D","a","t","a"," ","E","n","g","i","n","e","e","r">>>>,
       learning_paths |-> PyList(<<PyDict(("track" :> PyStr(<<"D","a","t","a"," ","S","c","i","e","n","c","e">>)) @@ ("topics" :> PyList(<<PyStr(<<"P","y","t","h","o","n"," ","f","o","r"," ","d","a","t","a"," ","a","n","a","l","y","s","i","s">>), PyStr(<<"N","u","m","p","y"," ","&"," ","P","a","n","d","a","s">>), PyStr(<<"D","a","t","a"," ","v","i","s","u","a","l","i","z","a","t","i","o","n"," ","(","M","a","t","p","l","o","t","l","i","b"," ","/"," ","S","e","a","b","o","r","n",")">>), PyStr(<<"E","x","p","l","o","r","a","t","o","r","y"," ","d","a","t","a"," ","a","n","a","l","y","s","i","s">>), PyStr(<<"I","n","t","r","o"," ","t","o"," ","M","L"," ","a","l","g","o","r","i","t","h","m","s">>)>>)) @@ ("tools" :> PyList(<<PyStr(<<"J","u","p","y","t","e","r"," ","/"," ","C","o","l","a","b">>), PyStr(<<"G","i","t">>), PyStr(<<"E","x","c","e","l"," ","/"," ","G","o","o","g","l","e"," ","S","h","e","e","t","s">>)>>)) @@ ("exercises" :> PyList(<<PyStr(<<"T","a","k","e"," ","h","a","n","d","w","r","i","t","t","e","n"," ","n","o","t","e","s"," ","o","n"," ","e","a","c","h"," ","t","o","p","i","c"," ","a","n","d"," ","s","u","m","m","a","r","i","z","e"," ","i","n"," ","y","o","u","r"," ","o","w","n"," ","w","o","r","d","s">>), PyStr(<<"I","m","p","l","e","m","e","n","t"," ","a","t"," ","l","e","a","s","t"," ","o","n","e"," ","m","i","n","i","-","e","x","a","m","p","l","e"," ","p","e","r"," ","t","o","p","i","c">>), PyStr(<<"P","u","s","h"," ","e","v","e","r","y"," ","e","x","p","e","r","i","m","e","n","t"," ","t","o"," ","G","i","t","H","u","b"," ","w","i","t","h"," ","c","l","e","a","r"," ","c","o","m","m","i","t","s">>)>>)) @@ ("projects" :> PyList(<<PyStr(<<"S","a","l","e","s"," ","o","r"," ","K","P","I"," ","d","a","s","h","b","o","a","r","d">>), PyStr(<<"E","x","p","l","o","r","a","t","o","r","y"," ","a","n","a","l","y","s","i","s"," ","o","f"," ","a"," ","p","u","b","l","i","c"," ","d","a","t","a","s","e","t">>), PyStr(<<"C","u","s","t","o","m","e","r"," ","s","e","g","m","e","n","t","a","t","i","o","n"," ","m","i","n","i","-","p","r","o","j","e","c","t">>)>>)) @@ ("estimated_time_weeks" :> PyInt(6)))>>),
       certs |-> PyList(<<PyDict(("name" :> PyStr(<<"G","o","o","g","l","e"," ","D","a","t","a"," ","A","n","a","l","y","t","i","c","s"," ","/"," ","M","L"," ","s","p","e","c","i","a","l","i","z","a","t","i","o","n">>)) @@ ("value_level" :> PyStr(<<"m","e","d","i","u","m">>)) @@ ("recommendation" :> PyStr(<<"p","u","r","s","u","e">>)) @@ ("reason" :> PyStr(<<"S","h","o","w","s"," ","s","t","r","u","c","t","u","r","e","d"," ","l","e","a","r","n","i","n","g"," ","i","n"," ","d","a","t","a","/","M","L"," ","f","o","r"," ","f","r","e","s","h","e","r"," ","r","o","l","e","s",".">>))), PyDict(("name" :> PyStr(<<"G","e","n","e","r","i","c"," ","'","M","S"," ","O","f","f","i","c","e","'"," ","c","o","u","r","s","e">>)) @@ ("value_level" :> PyStr(<<"l","o","w">>)) @@ ("recommendation" :> PyStr(<<"a","v","o","i","d">>)) @@ ("reason" :> PyStr(<<"T","o","o"," ","b","a","s","i","c"," ","f","o","r"," ","I","T"," ","h","i","r","i","n","g",";"," ","b","e","t","t","e","r"," ","t","o"," ","f","o","c","u","s"," ","o","n"," ","t","e","c","h","n","i","c","a","l"," ","c","e","r","t","i","f","i","c","a","t","e","s",".">>)))>>),
       recommended_tech_stacks |-> PyList(<<PyDict(("stack" :> PyStr(<<"P","y","t","h","o","n"," ","d","a","t","a"," ","s","t","a","c","k"," ","(","P","a","n","d","a","s",","," ","N","u","m","p","y",","," ","S","c","i","k","i","t","-","l","e","a","r","n",")">>)) @@ ("reason" :> PyStr(<<"S","t","a","n","d","a","r","d"," ","s","t","a","c","k"," ","u","s","e","d"," ","i","n"," ","m","o","s","t"," ","e","n","t","r","y","-","l","e","v","e","l"," ","d","a","t","a"," ","r","o","l","e","s",".">>)))>>),
       career_clarity_summary |-> PyDict(("primary_alignment" :> PyStr(<<"D","a","t","a"," ","S","c","i","e","n","c","e">>)) @@ ("aligned_roles" :> PyList(<<PyStr(<<"D","a","t","a"," ","A","n","a","l","y","s","t">>), PyStr(<<"D","a","t","a"," ","E","n","g","i","n","e","e","r">>)>>)) @@ ("roles_to_avoid" :> PyList(<<PyStr(<<"P","u","r","e"," ","U","I","/","U","X"," ","o","r"," ","g","r","a","p","h","i","c"," ","d","e","s","i","g","n"," ","r","o","l","e","s">>)>>)) @@ ("reasoning" :> PyStr(<<"A","l","i","g","n","m","e","n","t"," ","i","n","f","e","r","r","e","d"," ","f","r","o","m"," ","y","o","u","r"," ","c","u","r","r","e","n","t"," ","s","k","i","l","l","s"," ","a","n","d"," ","a","r","e","a","s"," ","o","f"," ","i","n","t","e","r","e","s","t","."," ","U","s","e"," ","t","h","i","s"," ","a","s"," ","a"," ","d","i","r","e","c","t","i","o","n",","," ","n","o","t"," ","a"," ","h","a","r","d"," ","l","i","m","i","t",".">>))),
       weeks |-> PyList(<<PyDict(("week" :> PyInt(1)) @@ ("focus" :> PyStr(<<"F","o","c","u","s"," ","o","n",":"," ","D","a","t","a"," ","S","c","i","e","n","c","e"," ","f","u","n","d","a","m","e","n","t","a","l","s"," ","(","w","e","e","k"," ","1",")">>)) @@ ("topics" :> PyList(<<PyStr(<<"P","y","t","h","o","n"," ","f","o","r"," ","d","a","t","a"," ","a","n","a","l","y","s","i","s">>)>>)) @@ ("practice_tasks" :> PyList(<<PyStr(<<"C","r","e","a","t","e"," ","n","o","t","e","s"," ","a","n","d"," ","m","i","n","d","-","m","a","p","s"," ","f","o","r"," ","e","a","c","h"," ","t","o","p","i","c">>), PyStr(<<"I","m","p","l","e","m","e","n","t"," ","a","t"," ","l","e","a","s","t"," ","o","n","e"," ","s","m","a","l","l"," ","e","x","a","m","p","l","e"," ","p","e","r"," ","t","o","p","i","c">>)>>)) @@ ("checkpoints" :> PyList(<<PyStr(<<"A","b","l","e"," ","t","o"," ","e","x","p","l","a","i","n"," ","e","a","c","h"," ","t","o","p","i","c"," ","i","n"," ","s","i","m","p","l","e"," ","w","o","r","d","s">>), PyStr(<<"P","u","s","h","e","d"," ","p","r","a","c","t","i","c","e"," ","c","o","d","e"," ","t","o"," ","G","i","t","H","u","b">>)>>))), PyDict(("week" :> PyInt(2)) @@ ("focus" :> PyStr(<<"F","o","c","u","s"," ","o","n",":"," ","D","a","t","a"," ","S","c","i","e","n","c","e"," ","f","u","n","d","a","m","e","n","t","a","l","s"," ","(","w","e","e","k"," ","2",")">>)) @@ ("topics" :> PyList(<<PyStr(<<"N","u","m","p","y"," ","&"," ","P","a","n","d","a","s">>)>>)) @@ ("practice_tasks" :> PyList(<<PyStr(<<"C","r","e","a","t","e"," ","n","o","t","e","s"," ","a","n","d"," ","m","i","n","d","-","m","a","p","s"," ","f","o","r"," ","e","a","c","h"," ","t","o","p","i","c">>), PyStr(<<"I","m","p","l","e","m","e","n","t"," ","a","t"," ","l","e","a","s","t"," ","o","n","e"," ","s","m","a","l","l"," ","e","x","a","m","p","l","e"," ","p","e","r"," ","t","o","p","i","c">>)>>)) @@ ("checkpoints" :> PyList(<<PyStr(<<"A","b","l","e"," ","t","o"," ","e","x","p","l","a","i","n"," ","e","a","c","h"," ","t","o","p","i","c"," ","i","n"," ","s","i","m","p","l","e"," ","w","o","r","d","s">>), PyStr(<<"P","u","s","h","e","d"," ","p","r","a","c","t","i","c","e"," ","c","o","d","e"," ","t","o"," ","G","i","t","H","u","b">>)>>))), PyDict(("week" :> PyInt(3)) @@ ("focus" :> PyStr(<<"F","o","c","u","s"," ","o","n",":"," ","D","a","t","a"," ","S","c","i","e","n","c","e"," ","f","u","n","d","a","m","e","n","t","a","l","s"," ","(","w","e","e","k"," ","3",")">>)) @@ ("topics" :> PyList(<<PyStr(<<"D","a","t","a"," ","v","i","s","u","a","l","i","z","a","t","i","o","n"," ","(","M","a","t","p","l","o","t","l","i","b"," ","/"," ","S","e","a","b","o","r","n",")">>)>>)) @@ ("practice_tasks" :> PyList(<<PyStr(<<"C","r","e","a","t","e"," ","n","o","t","e","s"," ","a","n","d"," ","m","i","n","d","-","m","a","p","s"," ","f","o","r"," ","e","a","c","h"," ","t","o","p","i","c">>), PyStr(<<"I","m","p","l","e","m","e","n","t"," ","a","t"," ","l","e","a","s","t"," ","o","n","e"," ","s","m","a","l","l"," ","e","x","a","m","p","l","e"," ","p","e","r"," ","t","o","p","i","c">>)>>)) @@ ("checkpoints" :> PyList(<<PyStr(<<"A","b","l","e"," ","t","o"," ","e","x","p","l","a","i","n"," ","e","a","c","h"," ","t","o","p","i","c"," ","i","n"," ","s","i","m","p","l","e"," ","w","o","r","d","s">>), PyStr(<<"P","u","s","h","e","d"," ","p","r","a","c","t","i","c","e"," ","c","o","d","e"," ","t","o"," ","G","i","t","H","u","b">>)>>))), PyDict(("week" :> PyInt(4)) @@ ("focus" :> PyStr(<<"F","o","c","u","s"," ","o","n",":"," ","D","a","t","a"," ","S","c","i","e","n","c","e"," ","f","u","n","d","a","m","e","n","t","a","l","s"," ","(","w","e","e","k"," ","4",")">>)) @@ ("topics" :> PyList(<<PyStr(<<"E","x","p","l","o","r","a","t","o","r","y"," ","d","a","t","a"," ","a","n","a","l","y","s","i","s">>)>>)) @@ ("practice_tasks" :> PyList(<<PyStr(<<"C","r","e","a","t","e"," ","n","o","t","e","s"," ","a","n","d"," ","m","i","n","d","-","m","a","p","s"," ","f","o","r"," ","e","a","c","h"," ","t","o","p","i","c">>), PyStr(<<"I","m","p","l","e","m","e","n","t"," ","a","t"," ","l","e","a","s","t"," ","o","n","e"," ","s","m","a","l","l"," ","e","x","a","m","p","l","e"," ","p","e","r"," ","t","o","p","i","c">>)>>)) @@ ("checkpoints" :> PyList(<<PyStr(<<"A","b","l","e"," ","t","o"," ","e","x","p","l","a","i","n"," ","e","a","c","h"," ","t","o","p","i","c"," ","i","n"," ","s","i","m","p","l","e"," ","w","o","r","d","s">>), PyStr(<<"P","u","s","h","e","d"," ","p","r","a","c","t","i","c","e"," ","c","o","d","e"," ","t","o"," ","G","i","t","H","u","b">>)>>)))>>)],
      [keywords |-> <<<<"m","l">>, <<"m","a","c","h","i","n","e"," ","l","e","a","r","n","i","n","g">>, <<"a","i">>, <<"d","e","e","p"," ","l","e","a","r","n","i","n","g">>>>,
       primary_alignment |-> <<"M","a","c","h","i","n","e"," ","L","e","a","r","n","i","n","g"," ","/"," ","A","I">>,
       aligned_roles |-> <<<<"M","L"," ","E","n","g","i","n","e","e","r">>, <<"D","a","t","a"," ","S","c","i","e","n","t","i","s","t">>>>,
       learning_paths |-> PyList(<<PyDict(("track" :> PyStr(<<"M","a","c","h","i","n","e"," ","L","e","a","r","n","i","n","g"," ","/"," ","A","I">>)) @@ ("topics" :> PyList(<<PyStr(<<"L","i","n","e","a","r"," ","a","l","g","e","b","r","a"," ","&"," ","p","r","o","b","a","b","i","l","i","t","y"," ","r","e","f","r","e","s","h","e","r">>), PyStr(<<"S","u","p","e","r","v","i","s","e","d"," ","l","e","a","r","n","i","n","g"," ","w","i","t","h"," ","S","c","i","k","i","t","-","l","e","a","r","n">>), PyStr(<<"F","e","a","t","u","r","e"," ","e","n","g","i","n","e","e","r","i","n","g">>), PyStr(<<"M","o","d","e","l"," ","e","v","a","l","u","a","t","i","o","n"," ","&"," ","c","r","o","s","s","-","v","a","l","i","d","a","t","i","o","n">>), PyStr(<<"I","n","t","r","o"," ","t","o"," ","d","e","e","p"," ","l","e","a","r","n","i","n","g"," ","(","T","e","n","s","o","r","F","l","o","w"," ","/"," ","P","y","T","o","r","c","h",")">>)>>)) @@ ("tools" :> PyList(<<PyStr(<<"P","y","t","h","o","n">>), PyStr(<<"S","c","i","k","i","t","-","l","e","a","r","n">>), PyStr(<<"T","e","n","s","o","r","F","l","o","w","/","P","y","T","o","r","c","h">>), PyStr(<<"G","i","t">>)>>)) @@ ("exercises" :> PyList(<<PyStr(<<"T","a","k","e"," ","h","a","n","d","w","r","i","t","t","e","n"," ","n","o","t","e","s"," ","o","n"," ","e","a","c","h"," ","t","o","p","i","c"," ","a","n","d"," ","s","u","m","m","a","r","i","z","e"," ","i","n"," ","y","o","u","r"," ","o","w","n"," ","w","o","r","d","s">>), PyStr(<<"I","m","p","l","e","m","e","n","t"," ","a","t"," ","l","e","a","s","t"," ","o","n","e"," ","m","i","n","i","-","e","x","a","m","p","l","e"," ","p","e","r"," ","t","o","p","i","c">>), PyStr(<<"P","u","s","h"," ","e","v","e","r","y"," ","e","x","p","e","r","i","m","e","n","t"," ","t","o"," ","G","i","t","H","u","b"," ","w","i","t","h"," ","c","l","e","a","r"," ","c","o","m","m","i","t","s">>)>>)) @@ ("projects" :> PyList(<<PyStr(<<"C","l","a","s","s","i","f","i","c","a","t","i","o","n"," ","m","o","d","e","l"," ","(","e",".","g",".",","," ","s","p","a","m",","," ","c","h","u","r","n",")">>), PyStr(<<"R","e","g","r","e","s","s","i","o","n"," ","m","o","d","e","l"," ","(","e",".","g",".",","," ","h","o","u","s","e"," ","p","r","i","c","e","s",")">>), PyStr(<<"I","m","a","g","e"," ","o","r"," ","t","e","x","t"," ","c","l","a","s","s","i","f","i","c","a","t","i","o","n"," ","m","i","n","i","-","p","r","o","j","e","c","t">>)>>)) @@ ("estimated_time_weeks" :> PyInt(6)))>>),
       certs |-> PyList(<<PyDict(("name" :> PyStr(<<"G","o","o","g","l","e"," ","D","a","t","a"," ","A","n","a","l","y","t","i","c","s"," ","/"," ","M","L"," ","s","p","e","c","i","a","l","i","z","a","t","i","o","n">>)) @@ ("value_level" :> PyStr(<<"m","e","d","i","u","m">>)) @@ ("recommendation" :> PyStr(<<"p","u","r","s","u","e">>)) @@ ("reason" :> PyStr(<<"S","h","o","w","s"," ","s","t","r","u","c","t","u","r","e","d"," ","l","e","a","r","n","i","n","g"," ","i","n"," ","d","a","t","a","/","M","L"," ","f","o","r"," ","f","r","e","s","h","e","r"," ","r","o","l","e","s",".">>))), PyDict(("name" :> PyStr(<<"G","e","n","e","r","i","c"," ","'","M","S"," ","O","f","f","i","c","e","'"," ","c","o","u","r","s","e">>)) @@ ("value_level" :> PyStr(<<"l","o","w">>)) @@ ("recommendation" :> PyStr(<<"a","v","o","i","d">>)) @@ ("reason" :> PyStr(<<"T","o","o"," ","b","a","s","i","c"," ","f","o","r"," ","I","T"," ","h","i","r","i","n","g",";"," ","b","e","t","t","e","r"," ","t","o"," ","f","o","c","u","s"," ","o","n"," ","t","e","c","h","n","i","c","a","l"," ","c","e","r","t","i","f","i","c","a","t","e","s",".">>)))>>),
       recommended_tech_stacks |-> PyList(<<PyDict(("stack" :> PyStr(<<"P","y","t","h","o","n"," ","M","L"," ","s","t","a","c","k"," ","(","S","c","i","k","i","t","-","l","e","a","r","n",","," ","T","e","n","s","o","r","F","l","o","w","/","P","y","T","o","r","c","h",")">>)) @@ ("reason" :> PyStr(<<"C","o","v","e","r","s"," ","b","o","t","h"," ","c","l","a","s","s","i","c","a","l"," ","M","L"," ","a","n","d"," ","d","e","e","p"," ","l","e","a","r","n","i","n","g"," ","f","o","r"," ","p","r","o","j","e","c","t","s",".">>)))>>),
       career_clarity_summary |-> PyDict(("primary_alignment" :> PyStr(<<"M","a","c","h","i","n","e"," ","L","e","a","r","n","i","n","g"," ","/"," ","A","I">>)) @@ ("aligned_roles" :> PyList(<<PyStr(<<"M","L"," ","E","n","g","i","n","e","e","r">>), PyStr(<<"D","a","t","a"," ","S","c","i","e","n","t","i","s","t">>)>>)) @@ ("roles_to_avoid" :> PyList(<<PyStr(<<"P","u","r","e"," ","U","I","/","U","X"," ","o","r"," ","g","r","a","p","h","i","c"," ","d","e","s","i","g","n"," ","r","o","l","e","s">>)>>)) @@ ("reasoning" :> PyStr(<<"A","l","i","g","n","m","e","n","t"," ","i","n","f","e","r","r","e","d"," ","f","r","o","m"," ","y","o","u","r"," ","c","u","r","r","e","n","t"," ","s","k","i","l","l","s"," ","a","n","d"," ","a","r","e","a","s"," ","o","f"," ","i","n","t","e","r","e","s","t","."," ","U","s","e"," ","t","h","i","s"," ","a","s"," ","a"," ","d","i","r","e","c","t","i","o","n",","," ","n","o","t"," ","a"," ","h","a","r","d"," ","l","i","m","i","t",".">>))),
       weeks |-> PyList(<<PyDict(("week" :> PyInt(1)) @@ ("focus" :> PyStr(<<"F","o","c","u","s"," ","o","n",":"," ","M","a","c","h","i","n","e"," ","L","e","a","r","n","i","n","g"," ","/"," ","A","I"," ","f","u","n","d","a","m","e","n","t","a","l","s"," ","(","w","e","e","k"," ","1",")">>)) @@ ("topics" :> PyList(<<PyStr(<<"L","i","n","e","a","r"," ","a","l","g","e","b","r","a"," ","&"," ","p","r","o","b","a","b","i","l","i","t","y"," ","r","e","f","r","e","s","h","e","r">>)>>)) @@ ("practice_tasks" :> PyList(<<PyStr(<<"C","r","e","a","t","e"," ","n","o","t","e","s"," ","a","n","d"," ","m","i","n","d","-","m","a","p","s"," ","f","o","r"," ","e","a","c","h"," ","t","o","p","i","c">>), PyStr(<<"I","m","p","l","e","m","e","n","t"," ","a","t"," ","l","e","a","s","t"," ","o","n","e"," ","s","m","a","l","l"," ","e","x","a","m","p","l","e"," ","p","e","r"," ","t","o","p","i","c">>)>>)) @@ ("checkpoints" :> PyList(<<PyStr(<<"A","b","l","e"," ","t","o"," ","e","x","p","l","a","i","n"," ","e","a","c","h"," ","t","o","p","i","c"," ","i","n"," ","s","i","m","p","l","e"," ","w","o","r","d","s">>), PyStr(<<"P","u","s","h","e","d"," ","p","r","a","c","t","i","c","e"," ","c","o","d","e"," ","t","o"," ","G","i","t","H","u","b">>)>>))), PyDict(("week" :> PyInt(2)) @@ ("focus" :> PyStr(<<"F","o","c","u","s"," ","o","n",":"," ","M","a","c","h","i","n","e"," ","L","e","a","r","n","i","n","g"," ","/"," ","A","I"," ","f","u","n","d","a","m","e","n","t","a","l","s"," ","(","w","e","e","k"," ","2",")">>)) @@ ("topics" :> PyList(<<PyStr(<<"S","u","p","e","r","v","i","s","e","d"," ","l","e","a","r","n","i","n","g"," ","w","i","t","h"," ","S","c","i","k","i","t","-","l","e","a","r","n">>)>>)) @@ ("practice_tasks" :> PyList(<<PyStr(<<"C","r","e","a","t","e"," ","n","o","t","e","s"," ","a","n","d"," ","m","i","n","d","-","m","a","p","s"," ","f","o","r"," ","e","a","c","h"," ","t","o","p","i","c">>), PyStr(<<"I","m","p","l","e","m","e","n","t"," ","a","t"," ","l","e","a","s","t"," ","o","n","e"," ","s","m","a","l","l"," ","e","x","a","m","p","l","e"," ","p","e","r"," ","t","o","p","i","c">>)>>)) @@ ("checkpoints" :> PyList(<<PyStr(<<"A","b","l","e"," ","t","o"," ","e","x","p","l","a","i","n"," ","e","a","c","h"," ","t","o","p","i","c"," ","i","n"," ","s","i","m","p","l","e"," ","w","o","r","d","s">>), PyStr(<<"P","u","s","h","e","d"," ","p","r","a","c","t","i","c","e"," ","c","o","d","e"," ","t","o"," ","G","i","t","H","u","b">>)>>))), PyDict(("week" :> PyInt(3)) @@ ("focus" :> PyStr(<<"F","o","c","u","s"," ","o","n",":"," ","M","a","c","h","i","n","e"," ","L","e","a","r","n","i","n","g"," ","/"," ","A","I"," ","f","u","n","d","a","m","e","n","t","a","l","s"," ","(","w","e","e","k"," ","3",")">>)) @@ ("topics" :> PyList(<<PyStr(<<"F","e","a","t","u","r","e"," ","e","n","g","i","n","e","e","r","i","n","g">>)>>)) @@ ("practice_tasks" :> PyList(<<PyStr(<<"C","r","e","a","t","e"," ","n","o","t","e","s"," ","a","n","d"," ","m","i","n","d","-","m","a","p","s"," ","f","o","r"," ","e","a","c","h"," ","t","o","p","i","c">>), PyStr(<<"I","m","p","l","e","m","e","n","t"," ","a","t"," ","l","e","a","s","t"," ","o","n","e"," ","s","m","a","l","l"," ","e","x","a","m","p","l","e"," ","p","e","r"," ","t","o","p","i","c">>)>>)) @@ ("checkpoints" :> PyList(<<PyStr(<<"A","b","l","e"," ","t","o"," ","e","x","p","l","a","i","n"," ","e","a","c","h"," ","t","o","p","i","c"," ","i","n"," ","s","i","m","p","l","e"," ","w","o","r","d","s">>), PyStr(<<"P","u","s","h","e","d"," ","p","r","a","c","t","i","c","e"," ","c","o","d","e"," ","t","o"," ","G","i","t","H","u","b">>)>>))), PyDict(("week" :> PyInt(4)) @@ ("focus" :> PyStr(<<"F","o","c","u","s"," ","o","n",":"," ","M","a","c","h","i","n","e"," ","L","e","a","r","n","i","n","g"," ","/"," ","A","I"," ","f","u","n","d","a","m","e","n","t","a","l","s"," ","(","w","e","e","k"," ","4",")">>)) @@ ("topics" :> PyList(<<PyStr(<<"M","o","d","e","l"," ","e","v","a","l","u","a","t","i","o","n"," ","&"," ","c","r","o","s","s","-","v","a","l","i","d","a","t","i","o","n">>)>>)) @@ ("practice_tasks" :> PyList(<<PyStr(<<"C","r","e","a","t","e"," ","n","o","t","e","s"," ","a","n","d"," ","m","i","n","d","-","m","a","p","s"," ","f","o","r"," ","e","a","c","h"," ","t","o","p","i","c">>), PyStr(<<"I","m","p","l","e","m","e","n","t"," ","a","t"," ","l","e","a","s","t"," ","o","n","e"," ","s","m","a","l","l"," ","e","x","a","m","p","l","e"," ","p","e","r"," ","t","o","p","i","c">>)>>)) @@ ("checkpoints" :> PyList(<<PyStr(<<"A","b","l","e"," ","t","o"," ","e","x","p","l","a","i","n"," ","e","a","c","h"," ","t","o","p","i","c"," ","i","n"," ","s","i","m","p","l","e"," ","w","o","r","d","s">>), PyStr(<<"P","u","s","h","e","d"," ","p","r","a","c","t","i","c","e"," ","c","o","d","e"," ","t","o"," ","G","i","t","H","u","b">>)>>)))>>)],
      [keywords |-> <<<<"a","w","s">>, <<"a","z","u","r","e">>, <<"g","c","p">>, <<"c","l","o","u","d">>>>,
       primary_alignment |-> <<"C","l","o","u","d"," ","/"," ","D","e","v","O","p","s">>,
       aligned_roles |-> <<<<"C","l","o","u","d"," ","E","n","g","i","n","e","e","r">>, <<"D","e","v","O","p","s"," ","E","n","g","i","n","e","e","r">>>>,
       learning_paths |-> PyList(<<PyDict(("track" :> PyStr(<<"C","l","o","u","d"," ","/"," ","D","e","v","O","p","s">>)) @@ ("topics" :> PyList(<<PyStr(<<"L","i","n","u","x"," ","&"," ","s","h","e","l","l"," ","b","a","s","i","c","s">>), PyStr(<<"C","l","o","u","d"," ","f","u","n","d","a","m","e","n","t","a","l","s"," ","(","A","W","S"," ","/"," ","A","z","u","r","e"," ","/"," ","G","C","P",")">>), PyStr(<<"D","o","c","k","e","r"," ","&"," ","c","o","n","t","a","i","n","e","r","i","z","a","t","i","o","n">>), PyStr(<<"C","I","/","C","D"," ","b","a","s","i","c","s">>), PyStr(<<"I","n","f","r","a","s","t","r","u","c","t","u","r","e"," ","a","s"," ","C","o","d","e"," ","o","v","e","r","v","i","e","w">>)>>)) @@ ("tools" :> PyList(<<PyStr(<<"L","i","n","u","x">>), PyStr(<<"G","i","t">>), PyStr(<<"D","o","c","k","e","r">>), PyStr(<<"A","n","y"," ","c","l","o","u","d"," ","f","r","e","e"," ","t","i","e","r">>)>>)) @@ ("exercises" :> PyList(<<PyStr(<<"T","a","k","e"," ","h","a","n","d","w","r","i","t","t","e","n"," ","n","o","t","e","s"," ","o","n"," ","e","a","c","h"," ","t","o","p","i","c"," ","a","n","d"," ","s","u","m","m","a","r","i","z","e"," ","i","n"," ","y","o","u","r"," ","o","w","n"," ","w","o","r","d","s">>), PyStr(<<"I","m","p","l","e","m","e","n","t"," ","a","t"," ","l","e","a","s","t"," ","o","n","e"," ","m","i","n","i","-","e","x","a","m","p","l","e"," ","p","e","r"," ","t","o","p","i","c">>), PyStr(<<"P","u","s","h"," ","e","v","e","r","y"," ","e","x","p","e","r","i","m","e","n","t"," ","t","o"," ","G","i","t","H","u","b"," ","w","i","t","h"," ","c","l","e","a","r"," ","c","o","m","m","i","t","s">>)>>)) @@ ("projects" :> PyList(<<PyStr(<<"D","e","p","l","o","y"," ","a"," ","s","i","m","p","l","e"," ","w","e","b"," ","a","p","p"," ","t","o"," ","c","l","o","u","d">>), PyStr(<<"D","o","c","k","e","r","i","z","e"," ","a","n"," ","e","x","i","s","t","i","n","g"," ","p","r","o","j","e","c","t">>), PyStr(<<"S","e","t"," ","u","p"," ","a"," ","b","a","s","i","c"," ","C","I"," ","p","i","p","e","l","i","n","e"," ","f","o","r"," ","t","e","s","t","s">>)>>)) @@ ("estimated_time_weeks" :> PyInt(6)))>>),
       certs |-> PyList(<<PyDict(("name" :> PyStr(<<"A","W","S"," ","C","l","o","u","d"," ","P","r","a","c","t","i","t","i","o","n","e","r"," ","o","r"," ","e","q","u","i","v","a","l","e","n","t"," ","c","l","o","u","d"," ","f","u","n","d","a","m","e","n","t","a","l","s">>)) @@ ("value_level" :> PyStr(<<"h","i","g","h">>)) @@ ("recommendation" :> PyStr(<<"p","u","r","s","u","e">>)) @@ ("reason" :> PyStr(<<"G","o","o","d"," ","e","n","t","r","y","-","l","e","v","e","l"," ","c","e","r","t","i","f","i","c","a","t","e"," ","f","o","r"," ","p","r","o","v","i","n","g"," ","c","l","o","u","d"," ","f","u","n","d","a","m","e","n","t","a","l","s",".">>))), PyDict(("name" :> PyStr(<<"G","e","n","e","r","i","c"," ","'","M","S"," ","O","f","f","i","c","e","'"," ","c","o","u","r","s","e">>)) @@ ("value_level" :> PyStr(<<"l","o","w">>)) @@ ("recommendation" :> PyStr(<<"a","v","o","i","d">>)) @@ ("reason" :> PyStr(<<"T","o","o"," ","b","a","s","i","c"," ","f","o","r"," ","I","T"," ","h","i","r","i","n","g",";"," ","b","e","t","t","e","r"," ","t","o"," ","f","o","c","u","s"," ","o","n"," ","t","e","c","h","n","i","c","a","l"," ","c","e","r","t","i","f","i","c","a","t","e","s",".">>)))>>),
       recommended_tech_stacks |-> PyList(<<PyDict(("stack" :> PyStr(<<"D","o","c","k","e","r"," ","+"," ","K","u","b","e","r","n","e","t","e","s"," ","+"," ","A","W","S","/","G","C","P","/","A","z","u","r","e">>)) @@ ("reason" :> PyStr(<<"C","o","m","m","o","n"," ","t","o","o","l","s","e","t"," ","u","s","e","d"," ","f","o","r"," ","c","l","o","u","d","-","n","a","t","i","v","e"," ","d","e","p","l","o","y","m","e","n","t","s",".">>)))>>),
       career_clarity_summary |-> PyDict(("primary_alignment" :> PyStr(<<"C","l","o","u","d"," ","/"," ","D","e","v","O","p","s">>)) @@ ("aligned_roles" :> PyList(<<PyStr(<<"C","l","o","u","d"," ","E","n","g","i","n","e","e","r">>), PyStr(<<"D","e","v","O","p","s"," ","E","n","g","i","n","e","e","r">>)>>)) @@ ("roles_to_avoid" :> PyList(<<>>)) @@ ("reasoning" :> PyStr(<<"A","l","i","g","n","m","e","n","t"," ","i","n","f","e","r","r","e","d"," ","f","r","o","m"," ","y","o","u","r"," ","c","u","r","r","e","n","t"," ","s","k","i","l","l","s"," ","a","n","d"," ","a","r","e","a","s"," ","o","f"," ","i","n","t","e","r","e","s","t","."," ","U","s","e"," ","t","h","i","s"," ","a","s"," ","a"," ","d","i","r","e","c","t","i","o","n",","," ","n","o","t"," ","a"," ","h","a","r","d"," ","l","i","m","i","t",".">>))),
       weeks |-> PyList(<<PyDict(("week" :> PyInt(1)) @@ ("focus" :> PyStr(<<"F","o","c","u","s"," ","o","n",":"," ","C","l","o","u","d"," ","/"," ","D","e","v","O","p","s"," ","f","u","n","d","a","m","e","n","t","a","l","s"," ","(","w","e","e","k"," ","1",")">>)) @@ ("topics" :> PyList(<<PyStr(<<"L","i","n","u","x"," ","&"," ","s","h","e","l","l"," ","b","a","s","i","c","s">>)>>)) @@ ("practice_tasks" :> PyList(<<PyStr(<<"C","r","e","a","t","e"," ","n","o","t","e","s"," ","a","n","d"," ","m","i","n","d","-","m","a","p","s"," ","f","o","r"," ","e","a","c","h"," ","t","o","p","i","c">>), PyStr(<<"I","m","p","l","e","m","e","n","t"," ","a","t"," ","l","e","a","s","t"," ","o","n","e"," ","s","m","a","l","l"," ","e","x","a","m","p","l","e"," ","p","e","r"," ","t","o","p","i","c">>)>>)) @@ ("checkpoints" :> PyList(<<PyStr(<<"A","b","l","e"," ","t","o"," ","e","x","p","l","a","i","n"," ","e","a","c","h"," ","t","o","p","i","c"," ","i","n"," ","s","i","m","p","l","e"," ","w","o","r","d","s">>), PyStr(<<"P","u","s","h","e","d"," ","p","r","a","c","t","i","c","e"," ","c","o","d","e"," ","t","o"," ","G","i","t","H","u","b">>)>>))), PyDict(("week" :> PyInt(2)) @@ ("focus" :> PyStr(<<"F","o","c","u","s"," ","o","n",":"," ","C","l","o","u","d"," ","/"," ","D","e","v","O","p","s"," ","f","u","n","d","a","m","e","n","t","a","l","s"," ","(","w","e","e","k"," ","2",")">>)) @@ ("topics" :> PyList(<<PyStr(<<"C","l","o","u","d"," ","f","u","n","d","a","m","e","n","t","a","l","s"," ","(","A","W","S"," ","/"," ","A","z","u","r","e"," ","/"," ","G","C","P",")">>)>>)) @@ ("practice_tasks" :> PyList(<<PyStr(<<"C","r","e","a","t","e"," ","n","o","t","e","s"," ","a","n","d"," ","m","i","n","d","-","m","a","p","s"," ","f","o","r"," ","e","a","c","h"," ","t","o","p","i","c">>), PyStr(<<"I","m","p","l","e","m","e","n","t"," ","a","t"," ","l","e","a","s","t"," ","o","n","e"," ","s","m","a","l","l"," ","e","x","a","m","p","l","e"," ","p","e","r"," ","t","o","p","i","c">>)>>)) @@ ("checkpoints" :> PyList(<<PyStr(<<"A","b","l","e"," ","t","o"," ","e","x","p","l","a","i","n"," ","e","a","c","h"," ","t","o","p","i","c"," ","i","n"," ","s","i","m","p","l","e"," ","w","o","r","d","s">>), PyStr(<<"P","u","s","h","e","d"," ","p","r","a","c","t","i","c","e"," ","c","o","d","e"," ","t","o"," ","G","i","t","H","u","b">>)>>))), PyDict(("week" :> PyInt(3)) @@ ("focus" :> PyStr(<<"F","o","c","u","s"," ","o","n",":"," ","C","l","o","u","d"," ","/"," ","D","e","v","O","p","s"," ","f","u","n","d","a","m","e","n","t","a","l","s"," ","(","w","e","e","k"," ","3",")">>)) @@ ("topics" :> PyList(<<PyStr(<<"D","o","c","k","e","r"," ","&"," ","c","o","n","t","a","i","n","e","r","i","z","a","t","i","o","n">>)>>)) @@ ("practice_tasks" :> PyList(<<PyStr(<<"C","r","e","a","t","e"," ","n","o","t","e","s"," ","a","n","d"," ","m","i","n","d","-","m","a","p","s"," ","f","o","r"," ","e","a","c","h"," ","t","o","p","i","c">>), PyStr(<<"I","m","p","l","e","m","e","n","t"," ","a","t"," ","l","e","a","s","t"," ","o","n","e"," ","s","m","a","l","l"," ","e","x","a","m","p","l","e"," ","p","e","r"," ","t","o","p","i","c">>)>>)) @@ ("checkpoints" :> PyList(<<PyStr(<<"A","b","l","e"," ","t","o"," ","e","x","p","l","a","i","n"," ","e","a","c","h"," ","t","o","p","i","c"," ","i","n"," ","s","i","m","p","l","e"," ","w","o","r","d","s">>), PyStr(<<"P","u","s","h","e","d"," ","p","r","a","c","t","i","c","e"," ","c","o","d","e"," ","t","o"," ","G","i","t","H","u","b">>)>>))), PyDict(("week" :> PyInt(4)) @@ ("focus" :> PyStr(<<"F","o","c","u","s"," ","o","n",":"," ","C","l","o","u","d"," ","/"," ","D","e","v","O","p","s"," ","f","u","n","d","a","m","e","n","t","a","l","s"," ","(","w","e","e","k"," ","4",")">>)) @@ ("topics" :> PyList(<<PyStr(<<"C","I","/","C","D"," ","b","a","s","i","c","s">>)>>)) @@ ("practice_tasks" :> PyList(<<PyStr(<<"C","r","e","a","t","e"," ","n","o","t","e","s"," ","a","n","d"," ","m","i","n","d","-","m","a","p","s"," ","f","o","r"," ","e","a","c","h"," ","t","o","p","i","c">>), PyStr(<<"I","m","p","l","e","m","e","n","t"," ","a","t"," ","l","e","a","s","t"," ","o","n","e"," ","s","m","a","l","l"," ","e","x","a","m","p","l","e"," ","p","e","r"," ","t","o","p","i","c">>)>>)) @@ ("checkpoints" :> PyList(<<PyStr(<<"A","b","l","e"," ","t","o"," ","e","x","p","l","a","i","n"," ","e","a","c","h"," ","t","o","p","i","c"," ","i","n"," ","s","i","m","p","l","e"," ","w","o","r","d","s">>), PyStr(<<"P","u","s","h","e","d"," ","p","r","a","c","t","i","c","e"," ","c","o","d","e"," ","t","o"," ","G","i","t","H","u","b">>)>>)))>>)],
      [keywords |-> <<<<"s","e","c","u","r","i","t","y">>, <<"c","y","b","e","r">>, <<"n","e","t","w","o","r","k">>, <<"v","u","l","n","e","r","a","b","i","l","i","t","y">>>>,
       primary_alignment |-> <<"C","y","b","e","r","s","e","c","u","r","i","t","y">>,
       aligned_roles |-> <<<<"S","e","c","u","r","i","t","y"," ","A","n","a","l","y","s","t">>, <<"C","y","b","e","r","s","e","c","u","r","i","t","y"," ","E","n","g","i","n","e","e","r">>>>,
       learning_paths |-> PyList(<<PyDict(("track" :> PyStr(<<"C","y","b","e","r","s","e","c","u","r","i","t","y">>)) @@ ("topics" :> PyList(<<PyStr(<<"N","e","t","w","o","r","k","i","n","g"," ","f","u","n","d","a","m","e","n","t","a","l","s">>), PyStr(<<"L","i","n","u","x"," ","s","e","c","u","r","i","t","y"," ","b","a","s","i","c","s">>), PyStr(<<"O","W","A","S","P"," ","T","o","p"," ","1","0"," ","o","v","e","r","v","i","e","w">>), PyStr(<<"I","n","t","r","o"," ","t","o"," ","v","u","l","n","e","r","a","b","i","l","i","t","y"," ","s","c","a","n","n","i","n","g">>), PyStr(<<"S","e","c","u","r","e"," ","c","o","d","i","n","g"," ","p","r","a","c","t","i","c","e","s">>)>>)) @@ ("tools" :> PyList(<<PyStr(<<"W","i","r","e","s","h","a","r","k">>), PyStr(<<"B","u","r","p"," ","S","u","i","t","e"," ","C","o","m","m","u","n","i","t","y">>), PyStr(<<"L","i","n","u","x">>), PyStr(<<"G","i","t">>)>>)) @@ ("exercises" :> PyList(<<PyStr(<<"T","a","k","e"," ","h","a","n","d","w","r","i","t","t","e","n"," ","n","o","t","e","s"," ","o","n"," ","e","a","c","h"," ","t","o","p","i","c"," ","a","n","d"," ","s","u","m","m","a","r","i","z","e"," ","i","n"," ","y","o","u","r"," ","o","w","n"," ","w","o","r","d","s">>), PyStr(<<"I","m","p","l","e","m","e","n","t"," ","a","t"," ","l","e","a","s","t"," ","o","n","e"," ","m","i","n","i","-","e","x","a","m","p","l","e"," ","p","e","r"," ","t","o","p","i","c">>), PyStr(<<"P","u","s","h"," ","e","v","e","r","y"," ","e","x","p","e","r","i","m","e","n","t"," ","t","o"," ","G","i","t","H","u","b"," ","w","i","t","h"," ","c","l","e","a","r"," ","c","o","m","m","i","t","s">>)>>)) @@ ("projects" :> PyList(<<PyStr(<<"S","i","m","p","l","e"," ","w","e","b"," ","a","p","p"," ","s","e","c","u","r","i","t","y"," ","r","e","v","i","e","w">>), PyStr(<<"C","T","F","-","s","t","y","l","e"," ","c","h","a","l","l","e","n","g","e","s"," ","(","T","r","y","H","a","c","k","M","e"," ","/"," ","H","a","c","k","T","h","e","B","o","x",")">>), PyStr(<<"N","e","t","w","o","r","k"," ","t","r","a","f","f","i","c"," ","a","n","a","l","y","s","i","s"," ","m","i","n","i","-","p","r","o","j","e","c","t">>)>>)) @@ ("estimated_time_weeks" :> PyInt(6)))>>),
       certs |-> PyList(<<PyDict(("name" :> PyStr(<<"G","e","n","e","r","i","c"," ","'","M","S"," ","O","f","f","i","c","e","'"," ","c","o","u","r","s","e">>)) @@ ("value_level" :> PyStr(<<"l","o","w">>)) @@ ("recommendation" :> PyStr(<<"a","v","o","i","d">>)) @@ ("reason" :> PyStr(<<"T","o","o"," ","b","a","s","i","c"," ","f","o","r"," ","I","T"," ","h","i","r","i","n","g",";"," ","b","e","t","t","e","r"," ","t","o"," ","f","o","c","u","s"," ","o","n"," ","t","e","c","h","n","i","c","a","l"," ","c","e","r","t","i","f","i","c","a","t","e","s",".">>)))>>),
       recommended_tech_stacks |-> PyList(<<PyDict(("stack" :> PyStr(<<"M","E","R","N"," ","o","r"," ","P","y","t","h","o","n"," ","+"," ","D","j","a","n","g","o">>)) @@ ("reason" :> PyStr(<<"B","o","t","h"," ","s","t","a","c","k","s"," ","a","r","e"," ","b","e","g","i","n","n","e","r","-","f","r","i","e","n","d","l","y"," ","a","n","d"," ","h","i","g","h","l","y"," ","i","n","-","d","e","m","a","n","d"," ","f","o","r"," ","f","r","e","s","h","e","r"," ","r","o","l","e","s",".">>)))>>),
       career_clarity_summary |-> PyDict(("primary_alignment" :> PyStr(<<"C","y","b","e","r","s","e","c","u","r","i","t","y">>)) @@ ("aligned_roles" :> PyList(<<PyStr(<<"S","e","c","u","r","i","t","y"," ","A","n","a","l","y","s","t">>), PyStr(<<"C","y","b","e","r","s","e","c","u","r","i","t","y"," ","E","n","g","i","n","e","e","r">>)>>)) @@ ("roles_to_avoid" :> PyList(<<>>)) @@ ("reasoning" :> PyStr(<<"A","l","i","g","n","m","e","n","t"," ","i","n","f","e","r","r","e","d"," ","f","r","o","m"," ","y","o","u","r"," ","c","u","r","r","e","n","t"," ","s","k","i","l","l","s"," ","a","n","d"," ","a","r","e","a","s"," ","o","f"," ","i","n","t","e","r","e","s","t","."," ","U","s","e"," ","t","h","i","s"," ","a","s"," ","a"," ","d","i","r","e","c","t","i","o","n",","," ","n","o","t"," ","a"," ","h","a","r","d"," ","l","i","m","i","t",".">>))),
       weeks |-> PyList(<<PyDict(("week" :> PyInt(1)) @@ ("focus" :> PyStr(<<"F","o","c","u","s"," ","o","n",":"," ","C","y","b","e","r","s","e","c","u","r","i","t","y"," ","f","u","n","d","a","m","e","n","t","a","l","s"," ","(","w","e","e","k"," ","1",")">>)) @@ ("topics" :> PyList(<<PyStr(<<"N","e","t","w","o","r","k","i","n","g"," ","f","u","n","d","a","m","e","n","t","a","l","s">>)>>)) @@ ("practice_tasks" :> PyList(<<PyStr(<<"C","r","e","a","t","e"," ","n","o","t","e","s"," ","a","n","d"," ","m","i","n","d","-","m","a","p","s"," ","f","o","r"," ","e","a","c","h"," ","t","o","p","i","c">>), PyStr(<<"I","m","p","l","e","m","e","n","t"," ","a","t"," ","l","e","a","s","t"," ","o","n","e"," ","s","m","a","l","l"," ","e","x","a","m","p","l","e"," ","p","e","r"," ","t","o","p","i","c">>)>>)) @@ ("checkpoints" :> PyList(<<PyStr(<<"A","b","l","e"," ","t","o"," ","e","x","p","l","a","i","n"," ","e","a","c","h"," ","t","o","p","i","c"," ","i","n"," ","s","i","m","p","l","e"," ","w","o","r","d","s">>), PyStr(<<"P","u","s","h","e","d"," ","p","r","a","c","t","i","c","e"," ","c","o","d","e"," ","t","o"," ","G","i","t","H","u","b">>)>>))), PyDict(("week" :> PyInt(2)) @@ ("focus" :> PyStr(<<"F","o","c","u","s"," ","o","n",":"," ","C","y","b","e","r","s","e","c","u","r","i","t","y"," ","f","u","n","d","a","m","e","n","t","a","l","s"," ","(","w","e","e","k"," ","2",")">>)) @@ ("topics" :> PyList(<<PyStr(<<"L","i","n","u","x"," ","s","e","c","u","r","i","t","y"," ","b","a","s","i","c","s">>)>>)) @@ ("practice_tasks" :> PyList(<<PyStr(<<"C","r","e","a","t","e"," ","n","o","t","e","s"," ","a","n","d"," ","m","i","n","d","-","m","a","p","s"," ","f","o","r"," ","e","a","c","h"," ","t","o","p","i","c">>), PyStr(<<"I","m","p","l","e","m","e","n","t"," ","a","t"," ","l","e","a","s","t"," ","o","n","e"," ","s","m","a","l","l"," ","e","x","a","m","p","l","e"," ","p","e","r"," ","t","o","p","i","c">>)>>)) @@ ("checkpoints" :> PyList(<<PyStr(<<"A","b","l","e"," ","t","o"," ","e","x","p","l","a","i","n"," ","e","a","c","h"," ","t","o","p","i","c"," ","i","n"," ","s","i","m","p","l","e"," ","w","o","r","d","s">>), PyStr(<<"P","u","s","h","e","d"," ","p","r","a","c","t","i","c","e"," ","c","o","d","e"," ","t","o"," ","G","i","t","H","u","b">>)>>))), PyDict(("week" :> PyInt(3)) @@ ("focus" :> PyStr(<<"F","o","c","u","s"," ","o","n",":"," ","C","y","b","e","r","s","e","c","u","r","i","t","y"," ","f","u","n","d","a","m","e","n","t","a","l","s"," ","(","w","e","e","k"," ","3",")">>)) @@ ("topics" :> PyList(<<PyStr(<<"O","W","A","S","P"," ","T","o","p"," ","1","0"," ","o","v","e","r","v","i","e","w">>)>>)) @@ ("practice_tasks" :> PyList(<<PyStr(<<"C","r","e","a","t","e"," ","n","o","t","e","s"," ","a","n","d"," ","m","i","n","d","-","m","a","p","s"," ","f","o","r"," ","e","a","c","h"," ","t","o","p","i","c">>), PyStr(<<"I","m","p","l","e","m","e","n","t"," ","a","t"," ","l","e","a","s","t"," ","o","n","e"," ","s","m","a","l","l"," ","e","x","a","m","p","l","e"," ","p","e","r"," ","t","o","p","i","c">>)>>)) @@ ("checkpoints" :> PyList(<<PyStr(<<"A","b","l","e"," ","t","o"," ","e","x","p","l","a","i","n"," ","e","a","c","h"," ","t","o","p","i","c"," ","i","n"," ","s","i","m","p","l","e"," ","w","o","r","d","s">>), PyStr(<<"P","u","s","h","e","d"," ","p","r","a","c","t","i","c","e"," ","c","o","d","e"," ","t","o"," ","G","i","t","H","u","b">>)>>))), PyDict(("week" :> PyInt(4)) @@ ("focus" :> PyStr(<<"F","o","c","u","s"," ","o","n",":"," ","C","y","b","e","r","s","e","c","u","r","i","t","y"," ","f","u","n","d","a","m","e","n","t","a","l","s"," ","(","w","e","e","k"," ","4",")">>)) @@ ("topics" :> PyList(<<PyStr(<<"I","n","t","r","o"," ","t","o"," ","v","u","l","n","e","r","a","b","i","l","i","t","y"," ","s","c","a","n","n","i","n","g">>)>>)) @@ ("practice_tasks" :> PyList(<<PyStr(<<"C","r","e","a","t","e"," ","n","o","t","e","s"," ","a","n","d"," ","m","i","n","d","-","m","a","p","s"," ","f","o","r"," ","e","a","c","h"," ","t","o","p","i","c">>), PyStr(<<"I","m","p","l","e","m","e","n","t"," ","a","t"," ","l","e","a","s","t"," ","o","n","e"," ","s","m","a","l","l"," ","e","x","a","m","p","l","e"," ","p","e","r"," ","t","o","p","i","c">>)>>)) @@ ("checkpoints" :> PyList(<<PyStr(<<"A","b","l","e"," ","t","o"," ","e","x","p","l","a","i","n"," ","e","a","c","h"," ","t","o","p","i","c"," ","i","n"," ","s","i","m","p","l","e"," ","w","o","r","d","s">>), PyStr(<<"P","u","s","h","e","d"," ","p","r","a","c","t","i","c","e"," ","c","o","d","e"," ","t","o"," ","G","i","t","H","u","b">>)>>)))>>)],
      [keywords |-> <<>>,
       primary_alignment |-> <<"G","e","n","e","r","a","l"," ","S","o","f","t","w","a","r","e"," ","D","e","v","e","l","o","p","m","e","n","t">>,
       aligned_roles |-> <<<<"S","o","f","t","w","a","r","e"," ","D","e","v","e","l","o","p","e","r">>, <<"F","u","l","l"," ","S","t","a","c","k"," ","D","e","v","e","l","o","p","e","r">>>>,
       learning_paths |-> PyList(<<PyDict(("track" :> PyStr(<<"G","e","n","e","r","a","l"," ","S","o","f","t","w","a","r","e"," ","D","e","v","e","l","o","p","m","e","n","t">>)) @@ ("topics" :> PyList(<<PyStr(<<"P","r","o","g","r","a","m","m","i","n","g"," ","f","u","n","d","a","m","e","n","t","a","l","s"," ","&"," ","p","r","o","b","l","e","m"," ","s","o","l","v","i","n","g">>), PyStr(<<"D","a","t","a"," ","s","t","r","u","c","t","u","r","e","s"," ","&"," ","a","l","g","o","r","i","t","h","m","s"," ","b","a","s","i","c","s">>), PyStr(<<"V","e","r","s","i","o","n"," ","c","o","n","t","r","o","l"," ","w","i","t","h"," ","G","i","t">>), PyStr(<<"B","u","i","l","d","i","n","g"," ","a","n","d"," ","c","o","n","s","u","m","i","n","g"," ","R","E","S","T"," ","A","P","I","s">>)>>)) @@ ("tools" :> PyList(<<PyStr(<<"V","S"," ","C","o","d","e">>), PyStr(<<"G","i","t">>), PyStr(<<"L","e","e","t","C","o","d","e"," ","/"," ","C","o","d","e","C","h","e","f">>)>>)) @@ ("exercises" :> PyList(<<PyStr(<<"T","a","k","e"," ","h","a","n","d","w","r","i","t","t","e","n"," ","n","o","t","e","s"," ","o","n"," ","e","a","c","h"," ","t","o","p","i","c"," ","a","n","d"," ","s","u","m","m","a","r","i","z","e"," ","i","n"," ","y","o","u","r"," ","o","w","n"," ","w","o","r","d","s">>), PyStr(<<"I","m","p","l","e","m","e","n","t"," ","a","t"," ","l","e","a","s","t"," ","o","n","e"," ","m","i","n","i","-","e","x","a","m","p","l","e"," ","p","e","r"," ","t","o","p","i","c">>), PyStr(<<"P","u","s","h"," ","e","v","e","r","y"," ","e","x","p","e","r","i","m","e","n","t"," ","t","o"," ","G","i","t","H","u","b"," ","w","i","t","h"," ","c","l","e","a","r"," ","c","o","m","m","i","t","s">>)>>)) @@ ("projects" :> PyList(<<PyStr(<<"C","L","I"," ","o","r"," ","d","e","s","k","t","o","p"," ","u","t","i","l","i","t","y"," ","a","p","p">>), PyStr(<<"S","m","a","l","l"," ","R","E","S","T"," ","A","P","I"," ","s","e","r","v","i","c","e">>), PyStr(<<"P","e","r","s","o","n","a","l"," ","k","n","o","w","l","e","d","g","e"," ","m","a","n","a","g","e","m","e","n","t"," ","t","o","o","l">>)>>)) @@ ("estimated_time_weeks" :> PyInt(6)))>>),
       certs |-> PyList(<<PyDict(("name" :> PyStr(<<"G","i","t","H","u","b"," ","F","o","u","n","d","a","t","i","o","n","s"," ","/"," ","A","n","y"," ","G","i","t"," ","c","o","u","r","s","e">>)) @@ ("value_level" :> PyStr(<<"m","e","d","i","u","m">>)) @@ ("recommendation" :> PyStr(<<"p","u","r","s","u","e">>)) @@ ("reason" :> PyStr(<<"C","o","n","f","i","r","m","s"," ","y","o","u","r"," ","u","n","d","e","r","s","t","a","n","d","i","n","g"," ","o","f"," ","G","i","t"," ","a","n","d"," ","G","i","t","H","u","b"," ","w","o","r","k","f","l","o","w","s",".">>))), PyDict(("name" :> PyStr(<<"G","e","n","e","r","i","c"," ","'","M","S"," ","O","f","f","i","c","e","'"," ","c","o","u","r","s","e">>)) @@ ("value_level" :> PyStr(<<"l","o","w">>)) @@ ("recommendation" :> PyStr(<<"a","v","o","i","d">>)) @@ ("reason" :> PyStr(<<"T","o","o"," ","b","a","s","i","c"," ","f","o","r"," ","I","T"," ","h","i","r","i","n","g",";"," ","b","e","t","t","e","r"," ","t","o"," ","f","o","c","u","s"," ","o","n"," ","t","e","c","h","n","i","c","a","l"," ","c","e","r","t","i","f","i","c","a","t","e","s",".">>)))>>),
       recommended_tech_stacks |-> PyList(<<PyDict(("stack" :> PyStr(<<"M","E","R","N"," ","o","r"," ","P","y","t","h","o","n"," ","+"," ","D","j","a","n","g","o">>)) @@ ("reason" :> PyStr(<<"B","o","t","h"," ","s","t","a","c","k","s"," ","a","r","e"," ","b","e","g","i","n","n","e","r","-","f","r","i","e","n","d","l","y"," ","a","n","d"," ","h","i","g","h","l","y"," ","i","n","-","d","e","m","a","n","d"," ","f","o","r"," ","f","r","e","s","h","e","r"," ","r","o","l","e","s",".">>)))>>),
       career_clarity_summary |-> PyDict(("primary_alignment" :> PyStr(<<"G","e","n","e","r","a","l"," ","S","o","f","t","w","a","r","e"," ","D","e","v","e","l","o","p","m","e","n","t">>)) @@ ("aligned_roles" :> PyList(<<PyStr(<<"S","o","f","t","w","a","r","e"," ","D","e","v","e","l","o","p","e","r">>), PyStr(<<"F","u","l","l"," ","S","t","a","c","k"," ","D","e","v","e","l","o","p","e","r">>)>>)) @@ ("roles_to_avoid" :> PyList(<<>>)) @@ ("reasoning" :> PyStr(<<"A","l","i","g","n","m","e","n","t"," ","i","n","f","e","r","r","e","d"," ","f","r","o","m"," ","y","o","u","r"," ","c","u","r","r","e","n","t"," ","s","k","i","l","l","s"," ","a","n","d"," ","a","r","e","a","s"," ","o","f"," ","i","n","t","e","r","e","s","t","."," ","U","s","e"," ","t","h","i","s"," ","a","s"," ","a"," ","d","i","r","e","c","t","i","o","n",","," ","n","o","t"," ","a"," ","h","a","r","d"," ","l","i","m","i","t",".">>))),
       weeks |-> PyList(<<PyDict(("week" :> PyInt(1)) @@ ("focus" :> PyStr(<<"F","o","c","u","s"," ","o","n",":"," ","G","e","n","e","r","a","l"," ","S","o","f","t","w","a","r","e"," ","D","e","v","e","l","o","p","m","e","n","t"," ","f","u","n","d","a","m","e","n","t","a","l","s"," ","(","w","e","e","k"," ","1",")">>)) @@ ("topics" :> PyList(<<PyStr(<<"P","r","o","g","r","a","m","m","i","n","g"," ","f","u","n","d","a","m","e","n","t","a","l","s"," ","&"," ","p","r","o","b","l","e","m"," ","s","o","l","v","i","n","g">>)>>)) @@ ("practice_tasks" :> PyList(<<PyStr(<<"C","r","e","a","t","e"," ","n","o","t","e","s"," ","a","n","d"," ","m","i","n","d","-","m","a","p","s"," ","f","o","r"," ","e","a","c","h"," ","t","o","p","i","c">>), PyStr(<<"I","m","p","l","e","m","e","n","t"," ","a","t"," ","l","e","a","s","t"," ","o","n","e"," ","s","m","a","l","l"," ","e","x","a","m","p","l","e"," ","p","e","r"," ","t","o","p","i","c">>)>>)) @@ ("checkpoints" :> PyList(<<PyStr(<<"A","b","l","e"," ","t","o"," ","e","x","p","l","a","i","n"," ","e","a","c","h"," ","t","o","p","i","c"," ","i","n"," ","s","i","m","p","l","e"," ","w","o","r","d","s">>), PyStr(<<"P","u","s","h","e","d"," ","p","r","a","c","t","i","c","e"," ","c","o","d","e"," ","t","o"," ","G","i","t","H","u","b">>)>>))), PyDict(("week" :> PyInt(2)) @@ ("focus" :> PyStr(<<"F","o","c","u","s"," ","o","n",":"," ","G","e","n","e","r","a","l"," ","S","o","f","t","w","a","r","e"," ","D","e","v","e","l","o","p","m","e","n","t"," ","f","u","n","d","a","m","e","n","t","a","l","s"," ","(","w","e","e","k"," ","2",")">>)) @@ ("topics" :> PyList(<<PyStr(<<"D","a","t","a"," ","s","t","r","u","c","t","u","r","e","s"," ","&"," ","a","l","g","o","r","i","t","h","m","s"," ","b","a","s","i","c","s">>)>>)) @@ ("practice_tasks" :> PyList(<<PyStr(<<"C","r","e","a","t","e"," ","n","o","t","e","s"," ","a","n","d"," ","m","i","n","d","-","m","a","p","s"," ","f","o","r"," ","e","a","c","h"," ","t","o","p","i","c">>), PyStr(<<"I","m","p","l","e","m","e","n","t"," ","a","t"," ","l","e","a","s","t"," ","o","n","e"," ","s","m","a","l","l"," ","e","x","a","m","p","l","e"," ","p","e","r"," ","t","o","p","i","c">>)>>)) @@ ("checkpoints" :> PyList(<<PyStr(<<"A","b","l","e"," ","t","o"," ","e","x","p","l","a","i","n"," ","e","a","c","h"," ","t","o","p","i","c"," ","i","n"," ","s","i","m","p","l","e"," ","w","o","r","d","s">>), PyStr(<<"P","u","s","h","e","d"," ","p","r","a","c","t","i","c","e"," ","c","o","d","e"," ","t","o"," ","G","i","t","H","u","b">>)>>))), PyDict(("week" :> PyInt(3)) @@ ("focus" :> PyStr(<<"F","o","c","u","s"," ","o","n",":"," ","G","e","n","e","r","a","l"," ","S","o","f","t","w","a","r","e"," ","D","e","v","e","l","o","p","m","e","n","t"," ","f","u","n","d","a","m","e","n","t","a","l","s"," ","(","w","e","e","k"," ","3",")">>)) @@ ("topics" :> PyList(<<PyStr(<<"V","e","r","s","i","o","n"," ","c","o","n","t","r","o","l"," ","w","i","t","h"," ","G","i","t">>)>>)) @@ ("practice_tasks" :> PyList(<<PyStr(<<"C","r","e","a","t","e"," ","n","o","t","e","s"," ","a","n","d"," ","m","i","n","d","-","m","a","p","s"," ","f","o","r"," ","e","a","c","h"," ","t","o","p","i","c">>), PyStr(<<"I","m","p","l","e","m","e","n","t"," ","a","t"," ","l","e","a","s","t"," ","o","n","e"," ","s","m","a","l","l"," ","e","x","a","m","p","l","e"," ","p","e","r"," ","t","o","p","i","c">>)>>)) @@ ("checkpoints" :> PyList(<<PyStr(<<"A","b","l","e"," ","t","o"," ","e","x","p","l","a","i","n"," ","e","a","c","h"," ","t","o","p","i","c"," ","i","n"," ","s","i","m","p","l","e"," ","w","o","r","d","s">>), PyStr(<<"P","u","s","h","e","d"," ","p","r","a","c","t","i","c","e"," ","c","o","d","e"," ","t","o"," ","G","i","t","H","u","b">>)>>))), PyDict(("week" :> PyInt(4)) @@ ("focus" :> PyStr(<<"F","o","c","u","s"," ","o","n",":"," ","G","e","n","e","r","a","l"," ","S","o","f","t","w","a","r","e"," ","D","e","v","e","l","o","p","m","e","n","t"," ","f","u","n","d","a","m","e","n","t","a","l","s"," ","(","w","e","e","k"," ","4",")">>)) @@ ("topics" :> PyList(<<PyStr(<<"B","u","i","l","d","i","n","g"," ","a","n","d"," ","c","o","n","s","u","m","i","n","g"," ","R","E","S","T"," ","A","P","I","s">>)>>)) @@ ("practice_tasks" :> PyList(<<PyStr(<<"C","r","e","a","t","e"," ","n","o","t","e","s"," ","a","n","d"," ","m","i","n","d","-","m","a","p","s"," ","f","o","r"," ","e","a","c","h"," ","t","o","p","i","c">>), PyStr(<<"I","m","p","l","e","m","e","n","t"," ","a","t"," ","l","e","a","s","t"," ","o","n","e"," ","s","m","a","l","l"," ","e","x","a","m","p","l","e"," ","p","e","r"," ","t","o","p","i","c">>)>>)) @@ ("checkpoints" :> PyList(<<PyStr(<<"A","b","l","e"," ","t","o"," ","e","x","p","l","a","i","n"," ","e","a","c","h"," ","t","o","p","i","c"," ","i","n"," ","s","i","m","p","l","e"," ","w","o","r","d","s">>), PyStr(<<"P","u","s","h","e","d"," ","p","r","a","c","t","i","c","e"," ","c","o","d","e"," ","t","o"," ","G","i","t","H","u","b">>)>>)))>>)]
    >>

\* lines 63-108: the gaps, each added when none of its keys is a lowercased skill;
\* a gap of a track only when the track is the primary alignment
skill_gaps ==
    <<
      [core |-> TRUE, track |-> <<>>, keys |-> <<<<"g","i","t">>>>, gap |-> PyDict(("name" :> PyStr(<<"G","i","t">>)) @@ ("reason" :> PyStr(<<"V","e","r","s","i","o","n"," ","c","o","n","t","r","o","l"," ","i","s"," ","e","s","s","e","n","t","i","a","l"," ","f","o","r"," ","a","l","m","o","s","t"," ","a","l","l"," ","m","o","d","e","r","n"," ","d","e","v","e","l","o","p","m","e","n","t"," ","w","o","r","k","f","l","o","w","s",".">>)))],
      [core |-> TRUE, track |-> <<>>, keys |-> <<<<"l","i","n","u","x">>>>, gap |-> PyDict(("name" :> PyStr(<<"L","i","n","u","x"," ","b","a","s","i","c","s">>)) @@ ("reason" :> PyStr(<<"M","o","s","t"," ","b","a","c","k","e","n","d",","," ","c","l","o","u","d"," ","a","n","d"," ","D","e","v","O","p","s"," ","w","o","r","k"," ","r","e","l","i","e","s"," ","h","e","a","v","i","l","y"," ","o","n"," ","L","i","n","u","x"," ","e","n","v","i","r","o","n","m","e","n","t","s",".">>)))],
      [core |-> FALSE, track |-> <<"W","e","b"," ","D","e","v","e","l","o","p","m","e","n","t">>, keys |-> <<<<"r","e","a","c","t">>, <<"a","n","g","u","l","a","r">>, <<"v","u","e">>>>, gap |-> PyDict(("name" :> PyStr(<<"M","o","d","e","r","n"," ","f","r","o","n","t","e","n","d"," ","f","r","a","m","e","w","o","r","k"," ","(","R","e","a","c","t"," ","/"," ","A","n","g","u","l","a","r"," ","/"," ","V","u","e",")">>)) @@ ("reason" :> PyStr(<<"C","o","m","p","a","n","i","e","s"," ","e","x","p","e","c","t"," ","a","t"," ","l","e","a","s","t"," ","o","n","e"," ","m","o","d","e","r","n"," ","f","r","a","m","e","w","o","r","k"," ","f","o","r"," ","s","e","r","i","o","u","s"," ","w","e","b"," ","w","o","r","k",".">>)))],
      [core |-> FALSE, track |-> <<"W","e","b"," ","D","e","v","e","l","o","p","m","e","n","t">>, keys |-> <<<<"n","o","d","e">>, <<"d","j","a","n","g","o">>, <<"f","l","a","s","k">>>>, gap |-> PyDict(("name" :> PyStr(<<"B","a","c","k","e","n","d"," ","f","r","a","m","e","w","o","r","k">>)) @@ ("reason" :> PyStr(<<"T","o"," ","b","u","i","l","d"," ","f","u","l","l","-","s","t","a","c","k"," ","a","p","p","s"," ","y","o","u"," ","s","h","o","u","l","d"," ","k","n","o","w"," ","a","t"," ","l","e","a","s","t"," ","o","n","e"," ","b","a","c","k","e","n","d"," ","f","r","a","m","e","w","o","r","k",".">>)))],
      [core |-> FALSE, track |-> <<"D","a","t","a"," ","S","c","i","e","n","c","e">>, keys |-> <<<<"p","a","n","d","a","s">>>>, gap |-> PyDict(("name" :> PyStr(<<"P","a","n","d","a","s">>)) @@ ("reason" :> PyStr(<<"C","o","r","e"," ","l","i","b","r","a","r","y"," ","f","o","r"," ","d","a","t","a"," ","m","a","n","i","p","u","l","a","t","i","o","n"," ","a","n","d"," ","a","n","a","l","y","s","i","s"," ","i","n"," ","P","y","t","h","o","n",".">>)))],
      [core |-> FALSE, track |-> <<"D","a","t","a"," ","S","c","i","e","n","c","e">>, keys |-> <<<<"s","q","l">>>>, gap |-> PyDict(("name" :> PyStr(<<"S","Q","L">>)) @@ ("reason" :> PyStr(<<"D","a","t","a"," ","r","o","l","e","s"," ","a","l","m","o","s","t"," ","a","l","w","a","y","s"," ","r","e","q","u","i","r","e"," ","q","u","e","r","y","i","n","g"," ","r","e","l","a","t","i","o","n","a","l"," ","d","a","t","a","b","a","s","e","s",".">>)))],
      [core |-> FALSE, track |-> <<"M","a","c","h","i","n","e"," ","L","e","a","r","n","i","n","g"," ","/"," ","A","I">>, keys |-> <<<<"s","c","i","k","i","t","-","l","e","a","r","n">>, <<"s","k","l","e","a","r","n">>, <<"t","e","n","s","o","r","f","l","o","w">>, <<"p","y","t","o","r","c","h">>>>, gap |-> PyDict(("name" :> PyStr(<<"M","L"," ","f","r","a","m","e","w","o","r","k"," ","(","S","c","i","k","i","t","-","l","e","a","r","n"," ","/"," ","T","e","n","s","o","r","F","l","o","w"," ","/"," ","P","y","T","o","r","c","h",")">>)) @@ ("reason" :> PyStr(<<"H","a","n","d","s","-","o","n"," ","M","L"," ","r","e","q","u","i","r","e","s"," ","e","x","p","e","r","i","e","n","c","e"," ","w","i","t","h"," ","a","t"," ","l","e","a","s","t"," ","o","n","e"," ","m","a","j","o","r"," ","f","r","a","m","e","w","o","r","k",".">>)))],
      [core |-> FALSE, track |-> <<"C","l","o","u","d"," ","/"," ","D","e","v","O","p","s">>, keys |-> <<<<"d","o","c","k","e","r">>, <<"k","u","b","e","r","n","e","t","e","s">>>>, gap |-> PyDict(("name" :> PyStr(<<"C","o","n","t","a","i","n","e","r","i","z","a","t","i","o","n"," ","(","D","o","c","k","e","r",")">>)) @@ ("reason" :> PyStr(<<"M","o","d","e","r","n"," ","c","l","o","u","d"," ","d","e","p","l","o","y","m","e","n","t","s"," ","r","e","l","y"," ","h","e","a","v","i","l","y"," ","o","n"," ","c","o","n","t","a","i","n","e","r","-","b","a","s","e","d"," ","w","o","r","k","f","l","o","w","s",".">>)))]
    >>

\* line 273
weak_keywords ==
    <<<<"m","s"," ","w","o","r","d">>, <<"m","s"," ","o","f","f","i","c","e">>, <<"b","r","o","w","s","i","n","g">>, <<"b","a","s","i","c"," ","c","o","m","p","u","t","e","r">>, <<"i","n","t","e","r","n","e","t">>>>

\* " ".join(xs) for a list or a str; TypeError for an entry that is no str
JoinStrings(xs) ==
    IF NotIterable(xs) \/ xs.t \in {"bool", "float"} THEN Raise("TypeError")
    ELSE LET items == IterItems(xs) IN
         IF \E i \in DOMAIN items : items[i].t # "str" THEN Raise("TypeError")
         ELSE Return(Join(<<" ">>, [i \in DOMAIN items |-> items[i].v]))

\* d.get(key, default) or default
GetOr(d, key, default) ==
    IF key \in DOMAIN d.v /\ Truthy(d.v[key]) THEN d.v[key] ELSE default

RECURSIVE SortedList(_)
\* sorted(xs) for a list of str
SortedList(xs) ==
    IF xs = <<>> THEN <<>>
    ELSE LET i == CHOOSE i \in DOMAIN xs : \A j \in DOMAIN xs : xs[i] = xs[j] \/ StrLess(xs[i], xs[j])
         IN <<xs[i]>> \o SortedList(SubSeq(xs, 1, i - 1) \o SubSeq(xs, i + 1, Len(xs)))

\* lines 31-51: the first alignment with a keyword in text_blobs
PrimaryAlignment(text_blobs) ==
    LET hits == {k \in DOMAIN alignments :
                    \E w \in DOMAIN alignments[k].keywords : Contains(text_blobs, alignments[k].keywords[w])}
    IN alignments[IF hits = {} THEN Len(alignments) ELSE Min(hits)]

\* lines 53-373, once the skills and interests are read: the guidance
FallbackSections(technical_skills, interests, text_blobs) ==
    LET skills == IterItems(technical_skills)
        a == PrimaryAlignment(text_blobs)
        named == SelectSeq(skills, LAMBDA x : Strip(PyToStr(x)) # <<>>)
        tech_skill_objs ==
            [i \in DOMAIN named |->
                PyDict(("name" :> PyStr(Strip(PyToStr(named[i])))) @@ ("level" :> PyStr(<<"i","n","t","e","r","m","e","d","i","a","t","e">>)))]
        lower_skills == {Lower(PyToStr(skills[i])) : i \in DOMAIN skills}
        open == SelectSeq(skill_gaps, LAMBDA x :
                    /\ x.core \/ x.track = a.primary_alignment
                    /\ \A k \in DOMAIN x.keys : x.keys[k] \notin lower_skills)
        core_gaps == SelectSeq(open, LAMBDA x : x.core)
        track_specific_gaps == SelectSeq(open, LAMBDA x : ~x.core)
        items == IterItems(interests)
        primary_interest == IF Len(items) > 0 THEN PyToStr(items[1]) ELSE a.primary_alignment
        matched == SortedList([i \in DOMAIN skills |-> skills[i].v])
        weak == SelectSeq(skills, LAMBDA x :
                    \E w \in DOMAIN weak_keywords : Contains(Lower(PyToStr(x)), weak_keywords[w]))
    IN PyDict(
        ("technical_skills" :> PyList(IF Len(tech_skill_objs) > 0 THEN tech_skill_objs
                                      ELSE <<PyDict(("name" :> PyStr(<<"P","r","o","g","r","a","m","m","i","n","g"," ","F","u","n","d","a","m","e","n","t","a","l","s">>)) @@ ("level" :> PyStr(<<"i","n","t","e","r","m","e","d","i","a","t","e">>)))>>))
        @@ ("missing_skills" :> PyList([i \in DOMAIN open |-> open[i].gap]))
        @@ ("learning_paths" :> a.learning_paths)
        @@ ("project_ideas" :> PyList(<<
               PyDict(("title" :> PyStr(primary_interest \o <<" ","M","i","n","i"," ","P","r","o","j","e","c","t">>))
                      @@ ("type" :> PyStr(<<"m","i","n","i">>))
                      @@ ("description" :> PyStr(<<"A"," ","s","m","a","l","l"," ","p","r","o","j","e","c","t"," ","t","o"," ","a","p","p","l","y"," ">> \o primary_interest \o <<" ","c","o","n","c","e","p","t","s"," ","u","s","i","n","g"," ","y","o","u","r"," ","c","u","r","r","e","n","t"," ","s","k","i","l","l","s",".">>))),
               PyDict(("title" :> PyStr(a.primary_alignment \o <<" ","P","o","r","t","f","o","l","i","o"," ","P","r","o","j","e","c","t">>))
                      @@ ("type" :> PyStr(<<"p","o","r","t","f","o","l","i","o">>))
                      @@ ("description" :> PyStr(<<"E","n","d","-","t","o","-","e","n","d"," ","p","r","o","j","e","c","t"," ","y","o","u"," ","c","a","n"," ","s","h","o","w","c","a","s","e"," ","i","n"," ","y","o","u","r"," ","r","e","s","u","m","e"," ","a","n","d"," ","G","i","t","H","u","b"," ","p","r","o","f","i","l","e",".">>)))>>))
        @@ ("certificate_recommendations" :> a.certs)
        @@ ("role_matching" :> PyList(<<
               PyDict(("role" :> PyStr(a.aligned_roles[1]))
                      @@ ("match_percentage" :> PyInt(80))
                      @@ ("matched_skills" :> PyList([i \in 1..Min({5, Len(matched)}) |-> PyStr(matched[i])]))
                      @@ ("missing_skills" :> PyList([i \in DOMAIN track_specific_gaps |-> track_specific_gaps[i].gap.v["name"]]))
                      @@ ("additional_skills_to_learn" :> PyList([i \in DOMAIN core_gaps |-> core_gaps[i].gap.v["name"]])))>>))
        @@ ("weak_skills" :> PyList([i \in DOMAIN weak |->
               PyDict(("name" :> weak[i]) @@ ("reason" :> PyStr(<<"V","e","r","y"," ","g","e","n","e","r","i","c"," ","o","r"," ","o","u","t","d","a","t","e","d"," ","s","k","i","l","l",";"," ","d","o","e","s"," ","n","o","t"," ","a","d","d"," ","m","u","c","h"," ","v","a","l","u","e"," ","t","o"," ","a"," ","t","e","c","h"," ","r","e","s","u","m","e",".">>)))]))
        @@ ("recommended_tech_stacks" :> a.recommended_tech_stacks)
        @@ ("career_clarity_summary" :> a.career_clarity_summary)
        @@ ("weekly_schedule" :> a.weeks))

\* lines 7-373; lines 13-29 raise for a record, a skills block or a list of another
\* shape
_build_fallback_guidance(resume_data) ==
    LET cleaned_resume == IF Truthy(resume_data) THEN resume_data ELSE EmptyDict IN
    IF cleaned_resume.t # "dict" THEN Raise("AttributeError")               \* line 14
    ELSE LET skills_block == GetOr(cleaned_resume, "skills", EmptyDict) IN
    IF skills_block.t # "dict" THEN Raise("AttributeError")                 \* line 15
    ELSE LET technical_skills == GetOr(skills_block, "technical", PyList(<<>>))
             interests == GetOr(skills_block, "area_of_interest", PyList(<<>>))
             joined == JoinStrings(technical_skills)
             joined_interests == JoinStrings(interests)
    IN IF joined.raised THEN joined                                          \* lines 17, 25
       ELSE IF joined_interests.raised THEN joined_interests                 \* line 27
       ELSE Bind({Return(FallbackSections(technical_skills, interests, text))
                  : text \in {Lower(joined.val \o <<" ">> \o joined_interests.val)}})

\* content.replace(old, ""): the leftmost occurrences, none overlapping, removed
RemoveAll(s, old) ==
    Bind({ Bind({ Bind({ [i \in DOMAIN kept |-> kept[i][2]]
                       : kept \in {SelectSeq([i \in 1..Len(s) |-> <<i, s[i]>>], LAMBDA x : x[1] \notin gone)} })
                : gone \in {UNION {i..(i + Len(old) - 1) : i \in Range(FindAllFrom(m, 1))}} })
         : m \in {[i \in {i \in 1..Len(s) : MatchAt(s, i, old)} |-> i + Len(old)]} })

\* lines 441-447: ensure_list and ensure_dict
ensure_list(obj, key) == IF DictGet(obj, key).t = "list" THEN DictGet(obj, key) ELSE PyList(<<>>)

ensure_dict(obj, key) == IF DictGet(obj, key).t = "dict" THEN DictGet(obj, key) ELSE EmptyDict

\* lines 449-459
guidance_result(data) ==
    PyDict([k \in Range(guidance_keys) |->
              IF k = "career_clarity_summary" THEN ensure_dict(data, k) ELSE ensure_list(data, k)])

\* lines 376-481; openrouter_client is TRUE when config.py has built a client,
\* response is what chat.completions.create does
generate_guidance(resume_data, openrouter_client, response) ==
    Bind({
       IF ~openrouter_client THEN fallback                                   \* lines 386-387
       ELSE IF fallback.raised THEN fallback                                 \* line 390, before the try
       ELSE IF response.t = "error" \/ response.choices = <<>> THEN fallback \* lines 418, 431, 479-481
       ELSE IF response.choices[1].content.t # "str" THEN fallback           \* line 431: .strip() of None
       ELSE Bind({
               IF data.raised THEN fallback                                  \* lines 434-438
               ELSE IF data.val.t # "dict" THEN fallback                     \* line 442: data.get
               ELSE Bind({IF \A k \in Range(list_sections) : ~Truthy(result.v[k])
                          THEN fallback                                      \* lines 462-475
                          ELSE Return(result)
                          : result \in {guidance_result(data.val)}})
               : data \in {json_loads(PyStr(Strip(RemoveAll(RemoveAll(Strip(response.choices[1].content.v), <<"BACKTICK","BACKTICK","BACKTICK","j","s","o","n">>), <<"BACKTICK","BACKTICK","BACKTICK">>))))}})
       : fallback \in {_build_fallback_guidance(IF Truthy(resume_data) THEN resume_data ELSE EmptyDict)}})

(***************************************************************************)
(* Certificate evaluation (resume_helper.py:176-277, 691-696)              *)
(***************************************************************************)
\* str(x) of a value of a parsed reply; a float gives its literal
StrOf(x) ==
    CASE x.t = "bool" -> IF x.v THEN <<"T","r","u","e">> ELSE <<"F","a","l","s","e">>
      [] x.t = "int" /\ x.v < 0 -> <<"-">> \o IntToStr(0 - x.v)
      [] x.t = "float" -> x.v
      [] OTHER -> PyToStr(x)

\* the part of a float literal before its fraction (literals without exponent)
IntegerPart(lit) ==
    LET dots == {i \in DOMAIN lit : lit[i] = "."}
        whole == IF dots = {} THEN lit ELSE SubSeq(lit, 1, Min(dots) - 1)
    IN IF Head(whole) = "-" THEN 0 - StrToInt(Tail(whole), 0) ELSE StrToInt(whole, 0)

\* lines 253-258: int(score_val), 0 when int() raises, kept within 0..100
score_int(score_val) ==
    LET text == IF score_val.t = "str" THEN Strip(score_val.v) ELSE <<>>
        digits == IF text # <<>> /\ Head(text) \in {"-", "+"} THEN Tail(text) ELSE text
        n == CASE score_val.t = "int" -> score_val.v
               [] score_val.t = "bool" -> IF score_val.v THEN 1 ELSE 0
               [] score_val.t = "float" -> IntegerPart(score_val.v)
               [] score_val.t = "str" /\ digits # <<>> /\ Range(digits) \subseteq DigitSet ->
                    IF Head(text) = "-" THEN 0 - StrToInt(digits, 0) ELSE StrToInt(digits, 0)
               [] OTHER -> 0
    IN Max({0, Min({100, n})})

\* bool(x) of a value of a parsed reply (float literals without exponent)
BoolOf(x) ==
    IF x.t = "float" THEN \E i \in DOMAIN x.v : x.v[i] \in (DigitSet \ {"0"}) ELSE Truthy(x)

\* lines 261-265
highlight_bool(highlight_val) ==
    IF highlight_val.t = "str"
    THEN Lower(Strip(highlight_val.v)) \in {<<"t","r","u","e">>, <<"y","e","s">>, <<"1">>}
    ELSE BoolOf(highlight_val)

\* obj.get(key, default)
GetDefault(obj, key, default) == IF key \in DOMAIN obj.v THEN obj.v[key] ELSE default

\* lines 244-275: the results, one for each object of the reply that names a certificate
certificate_results(items) ==
    LET named == SelectSeq(items, LAMBDA obj :
                    obj.t = "dict" /\ Strip(StrOf(GetDefault(obj, "certificate", PyStr(<<>>)))) # <<>>)
    IN [i \in DOMAIN named |->
          PyDict(("certificate" :> PyStr(Strip(StrOf(GetDefault(named[i], "certificate", PyStr(<<>>))))))
                 @@ ("worthiness_score" :> PyInt(score_int(GetDefault(named[i], "worthiness_score", PyInt(0)))))
                 @@ ("highlight" :> PyBool(highlight_bool(GetDefault(named[i], "highlight", PyBool(FALSE)))))
                 @@ ("reason" :> PyStr(Strip(StrOf(GetDefault(named[i], "reason", PyStr(<<>>)))))))]

\* lines 176-277 for a cert_list that is no dict; openrouter_client is TRUE when
\* config.py has built a client, response is what chat.completions.create does
evaluate_certificates(cert_list, openrouter_client, response) ==
    IF ~openrouter_client THEN Return(PyList(<<>>))                          \* lines 184-185
    ELSE IF ~BoolOf(cert_list) THEN Return(PyList(<<>>))                     \* lines 187-188
    ELSE IF cert_list.t \notin {"list", "str"} THEN Raise("TypeError")       \* line 190: for c in cert_list
    ELSE LET cert_strings == SelectSeq(IterItems(cert_list), LAMBDA c : Strip(StrOf(c)) # <<>>) IN
    IF cert_strings = <<>> THEN Return(PyList(<<>>))                         \* lines 191-192
    ELSE IF response.t = "error" \/ response.choices = <<>> THEN Return(PyList(<<>>))     \* lines 209-225
    ELSE LET content == response.choices[1].content
             raw == IF Truthy(content) THEN content.v ELSE <<>>
             raw_clean == Strip(RemoveAll(RemoveAll(Strip(raw), <<"BACKTICK","BACKTICK","BACKTICK","j","s","o","n">>), <<"BACKTICK","BACKTICK","BACKTICK">>))
             parsed == json_loads(PyStr(raw_clean))
    IN IF parsed.raised THEN Return(PyList(<<>>))                            \* lines 229-233
       ELSE LET items == IF parsed.val.t = "dict" /\ "results" \in DOMAIN parsed.val.v
                         THEN parsed.val.v["results"] ELSE parsed.val
            IN IF items.t # "list" THEN Return(PyList(<<>>))                 \* lines 240-241
               ELSE Return(PyList(certificate_results(items.v)))

\* process_resume_file at lines 691-696, after the parse of the model's reply (a
\* client is configured, line 599): the handler of lines 797-800 turns a raise
\* into the error outcome
process_resume_certificates(data, response) ==
    IF data.t # "dict" THEN Return([error |-> "AttributeError"])             \* line 692: data.get
    ELSE LET cert_list == GetOr(data, "certificates", PyList(<<>>))
             cert_analysis == evaluate_certificates(cert_list, TRUE, response)
         IN IF cert_analysis.raised THEN Return([error |-> cert_analysis.exc])
            ELSE Return([certificate_analysis |-> cert_analysis.val])

(***************************************************************************)
(* User accounts (routes/auth_routes.py)                                   *)
(***************************************************************************)
\* values of the types bytes, ObjectId, datetime and of an encoded JWT
PyBytes(s) == [t |-> "bytes", v |-> s]

ObjectId(n) == [t |-> "objectid", v |-> n]

PyDatetime(s) == [t |-> "datetime", v |-> s]

\* str(ObjectId): 24 hexadecimal digits
ObjectIdStr(n) == Rep(<<"0">>, 24 - Len(IntToStr(n))) \o IntToStr(n)

\* an HTTP response: the status code and the JSON body
Response(status, body) == [status |-> status, body |-> body]

\* raise HTTPException(status_code, detail)
HTTPException(status, detail) == Response(status, PyDict("detail" :> PyStr(detail)))

\* bcrypt.hashpw(password, bcrypt.gensalt()): the hash is kept as the bytes
\* value that checkpw accepts for this password and for no other
hashpw(password) == PyBytes(<<"$","2","b","$">> \o password)

\* bcrypt.checkpw(password, stored): ValueError when stored is no bcrypt hash
checkpw(password, stored) ==
    IF Len(stored) < 4 \/ SubSeq(stored, 1, 4) # <<"$","2","b","$">> THEN Raise("ValueError")
    ELSE Return(stored = hashpw(password).v)

\* the characters that quantify the item before them in a regular expression
Quantifiers == {"+", "*", "?"}

\* the characters of an email that f"^{email}$" turns into items of the pattern
PatternItems(email) == SelectSeq([i \in DOMAIN email |-> i], LAMBDA i : email[i] \notin Quantifiers)

\* MongoDB compiles f"^{email}$" when it parses the query: a quantifier with nothing
\* to repeat is an error (emails with two quantifiers in a row are not explored)
PatternValid(email) ==
    \A i \in DOMAIN email : email[i] \in Quantifiers => i > 1 /\ email[i - 1] \notin Quantifiers

\* f"^{email}$" with option i: "." is any character but a newline, a character
\* followed by +, * or ? is repeated, every other character stands for itself
EmailPattern(email) ==
    LET item(i) ==
            LET one == IF email[i] = "." THEN ReIn({"\n"}, TRUE) ELSE ReLit(<<LowerChar(email[i])>>)
                q == IF i < Len(email) THEN email[i + 1] ELSE " "
            IN CASE q = "+" -> ReGreedy(one, 1, -1)
                 [] q = "*" -> ReGreedy(one, 0, -1)
                 [] q = "?" -> ReGreedy(one, 0, 1)
                 [] OTHER -> one
        items == PatternItems(email)
    IN ReCat(<<ReBol>> \o [k \in DOMAIN items |-> item(items[k])] \o <<ReEol>>)

\* a document matches {"email": {"$regex": f"^{email}$", "$options": "i"}}
EmailMatches(email, doc) ==
    /\ "email" \in DOMAIN doc.v
    /\ doc.v["email"].t = "str"
    /\ Ends(EmailPattern(email), Lower(doc.v["email"].v), ReState(1, <<>>)) # <<>>

\* users.find_one({"email": {"$regex": ...}}): the index of the first match, 0 for None
find_one_regex(coll, email) ==
    LET hits == {i \in DOMAIN coll : EmailMatches(email, coll[i])}
    IN IF hits = {} THEN 0 ELSE Min(hits)

\* lines 71-86
RECURSIVE _convert_objectid(_)
_convert_objectid(obj) ==
    CASE obj.t = "dict" ->
            PyDict([k \in DOMAIN obj.v |->
                IF obj.v[k].t = "objectid" THEN PyStr(ObjectIdStr(obj.v[k].v))
                ELSE _convert_objectid(obj.v[k])])
      [] obj.t = "list" -> PyList([i \in DOMAIN obj.v |-> _convert_objectid(obj.v[i])])
      [] OTHER -> obj

\* _sanitize_user_doc without the pop of "password"
_sanitize_user_doc_keep(doc) == IF ~Truthy(doc) THEN doc ELSE _convert_objectid(doc)

\* lines 89-100
_sanitize_user_doc(doc) ==
    IF ~Truthy(doc) THEN doc
    ELSE LET safe == _convert_objectid(doc)
         IN PyDict([k \in DOMAIN safe.v \ {"password"} |-> safe.v[k]])

\* datetime.utcnow() + timedelta(minutes=ACCESS_TOKEN_EXPIRE_MINUTES)
expire == PyDatetime(<<"u","t","c","n","o","w","+","e","x","p","i","r","y">>)

\* lines 62-68: the JWT is kept as the payload that jwt.encode signs
create_access_token(data) == [t |-> "jwt", payload |-> PyDict(data.v @@ ("exp" :> expire))]

\* lines 125-138
success_payload(found_user) ==
    LET user_safe == _sanitize_user_doc(found_user)
        role == GetDefault(user_safe, "role", PyStr(<<"u","s","e","r">>))
        token_data == PyDict(("sub" :> DictGet(user_safe, "_id")) @@ ("email" :> DictGet(user_safe, "email")) @@ ("role" :> role))
        access_token == create_access_token(token_data)
    IN Response(200, PyDict(
           ("status" :> PyStr(<<"s","u","c","c","e","s","s">>))
        @@ ("message" :> PyStr(<<"L","o","g","i","n"," ","s","u","c","c","e","s","s","f","u","l"," ","a","s"," ">> \o PyToStr(role) \o <<" ", "CHECKMARK">>))
        @@ ("role" :> role)
        @@ ("user" :> user_safe)
        @@ ("access_token" :> access_token)
        @@ ("token_type" :> PyStr(<<"b","e","a","r","e","r">>))))

\* lines 106-159: login_user over the users collection coll
login_user(coll, user) ==
    IF ~PatternValid(user.email) THEN HTTPException(503, <<"D","a","t","a","b","a","s","e"," ","u","n","a","v","a","i","l","a","b","l","e">>)
    ELSE LET i == find_one_regex(coll, user.email) IN
    IF i = 0 THEN HTTPException(404, <<"U","s","e","r"," ","n","o","t"," ","f","o","u","n","d"," ">> \o <<"CROSSMARK">>)
    ELSE LET found_user == coll[i]
             stored_password == DictGet(found_user, "password")
             invalid == HTTPException(401, <<"I","n","v","a","l","i","d"," ","p","a","s","s","w","o","r","d"," ">> \o <<"CROSSMARK">>)
         IN IF ~Truthy(stored_password) THEN invalid
            ELSE IF stored_password = PyStr(user.password) THEN success_payload(found_user)
            ELSE IF stored_password.t \notin {"str", "bytes"} THEN invalid
            ELSE LET ok == checkpw(user.password, stored_password.v)
                 IN IF ~ok.raised /\ ok.val THEN success_payload(found_user) ELSE invalid

\* insert_one(doc) followed by find_one({"_id": inserted_id})
insert_one(coll, doc) == Append(coll, PyDict(doc.v @@ ("_id" :> ObjectId(Len(coll) + 1))))

\* (role or "user").lower()
role_or_user(role) == IF Truthy(role) THEN PyStr(Lower(role.v)) ELSE PyStr(<<"u","s","e","r">>)

\* the body that register_user and set_password return for a stored document
account_body(message, doc) ==
    LET safe == _sanitize_user_doc(doc)
    IN PyDict(("status" :> PyStr(<<"s","u","c","c","e","s","s">>)) @@ ("message" :> PyStr(message \o <<" ", "CHECKMARK">>))
              @@ ("role" :> GetDefault(safe, "role", PyStr(<<"u","s","e","r">>))) @@ ("user" :> safe))

\* lines 168-196: the response of register_user and the collection it leaves
register_user(coll, new_user) ==
    IF ~PatternValid(new_user.email)
    THEN [ret |-> HTTPException(503, <<"D","a","t","a","b","a","s","e"," ","u","n","a","v","a","i","l","a","b","l","e">>), users |-> coll]
    ELSE IF find_one_regex(coll, new_user.email) # 0
    THEN [ret |-> HTTPException(409, <<"U","s","e","r"," ","a","l","r","e","a","d","y"," ","e","x","i","s","t","s"," ">> \o <<"CROSSMARK">>), users |-> coll]
    ELSE LET doc == PyDict(("email" :> PyStr(new_user.email)) @@ ("password" :> hashpw(new_user.password))
                           @@ ("role" :> role_or_user(new_user.role)))
             after == insert_one(coll, doc)
         IN [ret |-> Response(200, account_body(<<"U","s","e","r"," ","r","e","g","i","s","t","e","r","e","d">>, after[Len(after)])), users |-> after]

\* lines 202-241: the response of set_password and the collection it leaves
set_password(coll, payload) ==
    IF ~PatternValid(payload.email)
    THEN [ret |-> HTTPException(503, <<"D","a","t","a","b","a","s","e"," ","u","n","a","v","a","i","l","a","b","l","e">>), users |-> coll]
    ELSE LET i == find_one_regex(coll, payload.email)
             hashed == hashpw(payload.password)
         IN IF i # 0
            THEN LET set == ("password" :> hashed) @@ (IF Truthy(payload.role) THEN ("role" :> PyStr(Lower(payload.role.v))) ELSE <<>>)
                     updated == PyDict(set @@ coll[i].v)
                 IN [ret |-> Response(200, account_body(<<"P","a","s","s","w","o","r","d"," ","u","p","d","a","t","e","d">>, updated)),
                     users |-> [coll EXCEPT ![i] = updated]]
            ELSE LET doc == PyDict(("email" :> PyStr(payload.email)) @@ ("password" :> hashed)
                                   @@ ("role" :> role_or_user(payload.role)))
                     after == insert_one(coll, doc)
                 IN [ret |-> Response(200, account_body(<<"U","s","e","r"," ","c","r","e","a","t","e","d">>, after[Len(after)])), users |-> after]


(***************************************************************************)
(* Resume upload and portfolio (routes/user.py)                            *)
(***************************************************************************)
\* datetime.utcnow(), and its isoformat()
utcnow == PyDatetime(<<"u","t","c","n","o","w">>)

\* update_one(filter, {"$set": fields}, upsert=True) for a filter {"email": email}
\* of equality: the first document with this very email is updated, and a new
\* document of the filter and the fields is inserted when there is none
upsert_by_email(coll, email, fields) ==
    LET hits == {i \in DOMAIN coll : "email" \in DOMAIN coll[i].v /\ coll[i].v["email"] = PyStr(email)}
    IN IF hits # {} THEN [coll EXCEPT ![Min(hits)] = PyDict(fields @@ coll[Min(hits)].v)]
       ELSE insert_one(coll, PyDict(fields @@ ("email" :> PyStr(email))))

RECURSIVE SplitFrom(_, _, _)
\* s[p:].split(sep) for a separator that is not empty
SplitFrom(s, sep, p) ==
    Bind({ IF hits = {} THEN <<SubSeq(s, p, Len(s))>>
           ELSE Bind({ <<SubSeq(s, p, hit - 1)>> \o SplitFrom(s, sep, hit + Len(sep)) : hit \in {Min(hits)} })
         : hits \in {{i \in p..(Len(s) - Len(sep) + 1) : MatchAt(s, i, sep)}} })

\* [s.strip() for s in text.split(",") if s.strip()]
StrippedItems(text) ==
    LET items == SplitFrom(text, <<",">>, 1)
    IN SelectSeq([i \in DOMAIN items |-> Strip(items[i])], LAMBDA s : s # <<>>)

\* lines 83-87: the role and the missing skills read from the reply of the AI service
parse_ai_text(ai_text) ==
    IF ~Contains(ai_text, <<"R","o","l","e",":">>) THEN [detected_role |-> PyStr(<<"U","n","k","n","o","w","n">>), suggested_skills |-> PyList(<<>>)]
    ELSE LET parts == SplitFrom(SplitFrom(ai_text, <<"R","o","l","e",":">>, 1)[2], <<"M","i","s","s","i","n","g"," ","S","k","i","l","l","s",":">>, 1)
             skills == IF Len(parts) > 1 THEN StrippedItems(parts[2]) ELSE <<>>
         IN [detected_role |-> PyStr(Strip(parts[1])), suggested_skills |-> PyList([i \in DOMAIN skills |-> PyStr(skills[i])])]

\* lines 36-125: upload_resume for the result of process_resume_file and the
\* reply of the AI service (PyNone: the request failed or was not answered with 200)
upload_resume(coll, email, file, result, ai_text) ==
    IF ~Truthy(file) THEN [ret |-> HTTPException(400, <<"N","o"," ","f","i","l","e"," ","u","p","l","o","a","d","e","d">>), users |-> coll]
    ELSE IF "error" \in DOMAIN result.v
    THEN [ret |-> HTTPException(500, <<"5","0","0",":"," ">> \o PyToStr(result.v["error"])), users |-> coll]
    ELSE LET structured_info == GetDefault(result, "data", EmptyDict)
             ats_score == GetDefault(result, "ats_score", PyInt(0))
             ats_breakdown == GetDefault(result, "ats_breakdown", EmptyDict)
             word_count == GetDefault(result, "word_count", PyInt(0))
             ai == IF ai_text.t = "str" THEN parse_ai_text(ai_text.v)
                   ELSE [detected_role |-> PyStr(<<"U","n","k","n","o","w","n">>), suggested_skills |-> PyList(<<>>)]
             shared == ("structured_info" :> structured_info) @@ ("ats_score" :> ats_score)
                       @@ ("ats_breakdown" :> ats_breakdown) @@ ("word_count" :> word_count)
                       @@ ("suggested_skills" :> ai.suggested_skills) @@ ("detected_role" :> ai.detected_role)
             fields == shared @@ ("resume_filename" :> file.v["filename"]) @@ ("last_uploaded" :> PyStr(utcnow.v))
             body == shared @@ ("status" :> PyStr(<<"s","u","c","c","e","s","s">>))
                     @@ ("message" :> PyStr(<<"R","e","s","u","m","e"," ","p","r","o","c","e","s","s","e","d"," ","s","u","c","c","e","s","s","f","u","l","l","y"," ">> \o <<"CHECKMARK">>))
         IN [ret |-> Response(200, PyDict(body)), users |-> upsert_by_email(coll, email, fields)]

\* str.title(): a letter after a letter is lower-cased, every other letter upper-cased
Title(s) ==
    LET cased(c) == c \in LowerSet \/ c \in UpperSet
    IN AsSeq([i \in 1..Len(s) |-> IF i > 1 /\ cased(s[i - 1]) THEN LowerChar(s[i]) ELSE UpperChar(s[i])], Len(s))

\* s.replace(old, new) for single characters
ReplaceChar(s, old, new) == AsSeq([i \in 1..Len(s) |-> IF s[i] = old THEN new ELSE s[i]], Len(s))

\* email.split("@")[0].replace(".", " ").title()
name_of_email(email) ==
    LET ats == {i \in DOMAIN email : email[i] = "@"}
        local == IF ats = {} THEN email ELSE SubSeq(email, 1, Min(ats) - 1)
    IN Title(ReplaceChar(local, ".", " "))

\* lines 171-198: the portfolio of the users "yuva" and "portfolioyuva"
yuva_portfolio ==
    PyDict(("name" :> PyStr(<<"Y","u","v","a">>)) @@ ("headline" :> PyStr(<<"A","s","p","i","r","i","n","g"," ","S","o","f","t","w","a","r","e"," ","E","n","g","i","n","e","e","r">>)) @@ ("summary" :> PyStr(<<"P","a","s","s","i","o","n","a","t","e"," ","a","b","o","u","t"," ","b","u","i","l","d","i","n","g"," ","i","n","n","o","v","a","t","i","v","e"," ","s","o","l","u","t","i","o","n","s"," ","a","n","d"," ","l","e","a","r","n","i","n","g"," ","n","e","w"," ","t","e","c","h","n","o","l","o","g","i","e","s",".">>)) @@ ("skills" :> PyList(<<PyStr(<<"P","y","t","h","o","n">>), PyStr(<<"J","a","v","a","S","c","r","i","p","t">>), PyStr(<<"R","e","a","c","t">>), PyStr(<<"N","o","d","e",".","j","s">>), PyStr(<<"M","o","n","g","o","D","B">>), PyStr(<<"H","T","M","L","/","C","S","S">>)>>)) @@ ("projects" :> PyList(<<PyDict(("title" :> PyStr(<<"E","-","c","o","m","m","e","r","c","e"," ","W","e","b","s","i","t","e">>)) @@ ("description" :> PyStr(<<"B","u","i","l","t"," ","a"," ","f","u","l","l","-","s","t","a","c","k"," ","e","-","c","o","m","m","e","r","c","e"," ","p","l","a","t","f","o","r","m"," ","w","i","t","h"," ","R","e","a","c","t"," ","a","n","d"," ","N","o","d","e",".","j","s">>)) @@ ("technologies" :> PyList(<<PyStr(<<"R","e","a","c","t">>), PyStr(<<"N","o","d","e",".","j","s">>), PyStr(<<"M","o","n","g","o","D","B">>), PyStr(<<"E","x","p","r","e","s","s">>)>>)) @@ ("github" :> PyStr(<<"h","t","t","p","s",":","/","/","g","i","t","h","u","b",".","c","o","m","/","y","u","v","a","/","e","c","o","m","m","e","r","c","e">>)) @@ ("link" :> PyStr(<<"h","t","t","p","s",":","/","/","y","u","v","a","-","e","c","o","m","m","e","r","c","e",".","v","e","r","c","e","l",".","a","p","p">>))), PyDict(("title" :> PyStr(<<"T","a","s","k"," ","M","a","n","a","g","e","m","e","n","t"," ","A","p","p">>)) @@ ("description" :> PyStr(<<"A"," ","t","a","s","k"," ","m","a","n","a","g","e","m","e","n","t"," ","a","p","p","l","i","c","a","t","i","o","n"," ","w","i","t","h"," ","r","e","a","l","-","t","i","m","e"," ","u","p","d","a","t","e","s">>)) @@ ("technologies" :> PyList(<<PyStr(<<"R","e","a","c","t">>), PyStr(<<"F","i","r","e","b","a","s","e">>), PyStr(<<"M","a","t","e","r","i","a","l","-","U","I">>)>>)) @@ ("github" :> PyStr(<<"h","t","t","p","s",":","/","/","g","i","t","h","u","b",".","c","o","m","/","y","u","v","a","/","t","a","s","k","-","m","a","n","a","g","e","r">>)))>>)) @@ ("contacts" :> PyDict(("email" :> PyStr(<<"y","u","v","a","@","e","x","a","m","p","l","e",".","c","o","m">>)) @@ ("github" :> PyStr(<<"h","t","t","p","s",":","/","/","g","i","t","h","u","b",".","c","o","m","/","y","u","v","a">>)) @@ ("linkedin" :> PyStr(<<"h","t","t","p","s",":","/","/","l","i","n","k","e","d","i","n",".","c","o","m","/","i","n","/","y","u","v","a">>)) @@ ("phone" :> PyStr(<<"+","9","1"," ","9","8","7","6","5","4","3","2","1","0">>)))) @@ ("role" :> PyStr(<<"S","o","f","t","w","a","r","e"," ","E","n","g","i","n","e","e","r">>)))

\* lines 238-250: the profile made for an email that no user has
user_data(email) ==
    PyDict(("email" :> PyStr(Lower(email))) @@ ("name" :> PyStr(name_of_email(email))) @@ ("created_at" :> utcnow)
           @@ ("structured_info" :> PyDict(("skills" :> PyDict(("technical" :> PyList(<<>>)) @@ ("programming_languages" :> PyList(<<>>))))
                                            @@ ("projects" :> PyList(<<>>))))
           @@ ("detected_role" :> PyStr(<<"S","o","f","t","w","a","r","e"," ","E","n","g","i","n","e","e","r">>)))

\* lines 289-295: the entry of the portfolio for project i
portfolio_project(project, i) ==
    PyDict(("title" :> GetDefault(project, "title", PyStr(<<"P","r","o","j","e","c","t"," ">> \o IntToStr(i))))
           @@ ("description" :> GetDefault(project, "description", PyStr(<<>>)))
           @@ ("technologies" :> GetDefault(project, "technologies", PyList(<<>>)))
           @@ ("github" :> GetDefault(project, "github", PyStr(<<>>)))
           @@ ("link" :> GetDefault(project, "link", PyStr(<<>>))))

\* lines 266-305: the portfolio built from a user document with resume data
build_portfolio(user, email) ==
    LET data == IF Truthy(user.v["structured_info"]) THEN user.v["structured_info"] ELSE EmptyDict
        name == GetOr(user, "name", PyStr(name_of_email(email)))
        detected_role == GetDefault(user, "detected_role", PyStr(<<"S","o","f","t","w","a","r","e"," ","E","n","g","i","n","e","e","r">>))
        skills == GetDefault(data, "skills", EmptyDict)
        projects == GetDefault(data, "projects", PyList(<<>>)).v
        first == SubSeq(projects, 1, IF Len(projects) < 3 THEN Len(projects) ELSE 3)
    IN [name |-> name, detected_role |-> detected_role,
        portfolio |-> PyDict(
              ("name" :> name)
           @@ ("headline" :> PyStr(PyToStr(detected_role)))
           @@ ("summary" :> GetDefault(data, "summary", PyStr(<<"E","x","p","e","r","i","e","n","c","e","d"," ">> \o PyToStr(detected_role) \o <<" ","w","i","t","h"," ","a"," ","p","a","s","s","i","o","n"," ","f","o","r"," ","b","u","i","l","d","i","n","g"," ","g","r","e","a","t"," ","s","o","f","t","w","a","r","e",".">>)))
           @@ ("skills" :> PyList(GetDefault(skills, "technical", PyList(<<>>)).v \o GetDefault(skills, "programming_languages", PyList(<<>>)).v))
           @@ ("projects" :> PyList([i \in DOMAIN first |-> portfolio_project(first[i], i)]))
           @@ ("contacts" :> PyDict(("email" :> GetDefault(user, "email", PyStr(<<>>))) @@ ("github" :> PyStr(<<>>))
                                    @@ ("linkedin" :> PyStr(<<>>)) @@ ("phone" :> PyStr(<<>>))))
           @@ ("role" :> detected_role))]

\* lines 162-332: generate_portfolio over the users and the portfolio collection
generate_portfolio(coll, portfolios, email) ==
    LET email_lower == Lower(email) IN
    IF email_lower \in {<<"y","u","v","a">>, <<"p","o","r","t","f","o","l","i","o","y","u","v","a">>}
    THEN LET portfolio_slug == email_lower \o <<"-","p","o","r","t","f","o","l","i","o">>
             fields == ("slug" :> PyStr(portfolio_slug)) @@ ("portfolio" :> yuva_portfolio)
                       @@ ("updated_at" :> utcnow) @@ ("email" :> PyStr(email_lower))
         IN [ret |-> Response(200, PyDict(("status" :> PyStr(<<"s","u","c","c","e","s","s">>)) @@ ("message" :> PyStr(<<"P","o","r","t","f","o","l","i","o"," ","g","e","n","e","r","a","t","e","d"," ","s","u","c","c","e","s","s","f","u","l","l","y">>))
                                          @@ ("portfolio" :> yuva_portfolio) @@ ("slug" :> PyStr(portfolio_slug)))),
             users |-> coll, portfolio |-> upsert_by_email(portfolios, email_lower, fields)]
    ELSE IF ~PatternValid(email)
    THEN [ret |-> HTTPException(500, <<"A","n"," ","u","n","e","x","p","e","c","t","e","d"," ","e","r","r","o","r"," ","o","c","c","u","r","r","e","d",":"," ","R","e","g","u","l","a","r"," ","e","x","p","r","e","s","s","i","o","n"," ","i","s"," ","i","n","v","a","l","i","d">>),
          users |-> coll, portfolio |-> portfolios]
    ELSE LET i == find_one_regex(coll, email)
             after == IF i = 0 THEN insert_one(coll, user_data(email)) ELSE coll
             user == IF i = 0 THEN user_data(email) ELSE PyDict([k \in DOMAIN coll[i].v \ {"_id"} |-> coll[i].v[k]])
         IN IF "structured_info" \notin DOMAIN user.v
            THEN [ret |-> HTTPException(404, <<"N","o"," ","r","e","s","u","m","e"," ","d","a","t","a"," ","f","o","u","n","d","."," ","P","l","e","a","s","e"," ","u","p","l","o","a","d"," ","a"," ","r","e","s","u","m","e"," ","f","i","r","s","t",".">>),
                  users |-> after, portfolio |-> portfolios]
            ELSE LET built == build_portfolio(user, email)
                     slug == ReplaceChar(Lower(PyToStr(built.name)), " ", "-") \o <<"-">> \o ReplaceChar(Lower(PyToStr(built.detected_role)), " ", "-")
                     fields == ("slug" :> PyStr(slug)) @@ ("portfolio" :> built.portfolio)
                               @@ ("updated_at" :> utcnow) @@ ("email" :> PyStr(email_lower))
                 IN [ret |-> Response(200, PyDict(("status" :> PyStr(<<"s","u","c","c","e","s","s">>)) @@ ("message" :> PyStr(<<"P","o","r","t","f","o","l","i","o"," ","g","e","n","e","r","a","t","e","d"," ","s","u","c","c","e","s","s","f","u","l","l","y">>))
                                                  @@ ("portfolio" :> built.portfolio))),
                     users |-> after, portfolio |-> upsert_by_email(portfolios, email_lower, fields)]


(***************************************************************************)
(* The resume processor (resume_helper.py:587-800)                         *)
(***************************************************************************)
\* the length of the match of r"[,;/]\s*" at index i, 0 if none starts there
SkillSeparator(s, i) == IF s[i] \in {",", ";", "/"} THEN 1 + SpaceRun(s, i + 1) ELSE 0

\* re.split(r"[,;/]\s*", s)
SplitSkills(s) ==
    LET m == [i \in {i \in 1..Len(s) : SkillSeparator(s, i) > 0} |-> i + SkillSeparator(s, i)]
        cuts == FindAllFrom(m, 1)
    IN [k \in 1..(Len(cuts) + 1) |->
           SubSeq(s, IF k = 1 THEN 1 ELSE m[cuts[k - 1]],
                     IF k > Len(cuts) THEN Len(s) ELSE cuts[k] - 1)]

\* lines 719-722: a str becomes the list of its stripped, non-empty pieces
split_items(x) ==
    IF x.t # "str" THEN x
    ELSE PyList(SelectSeq(AsSeq([k \in DOMAIN SplitSkills(x.v) |-> PyStr(Strip(SplitSkills(x.v)[k]))],
                                Len(SplitSkills(x.v))),
                          LAMBDA piece : piece.v # <<>>))

\* lines 723-724
certificate_items(x) == IF x.t = "str" THEN PyList(<<x>>) ELSE x

\* lines 726-727: str(x).strip().lower() of the items whose str(x).strip() is not empty
stripped_lower(items) ==
    LET kept == SelectSeq(items, LAMBDA x : Strip(PyToStr(x)) # <<>>)
    IN [i \in DOMAIN kept |-> Lower(Strip(PyToStr(kept[i])))]

\* lines 746-751 for certificates of more words than the key only
matches_certificate_longer(key, cert_lower_list) ==
    \E i \in DOMAIN cert_lower_list :
        /\ SplitCount(cert_lower_list[i]) > SplitCount(key)
        /\ \/ key = cert_lower_list[i]
           \/ Contains(cert_lower_list[i], key)
           \/ Contains(key, cert_lower_list[i])

\* lines 746-751: some certificate of at least as many words equals, holds or is
\* held by the key
matches_certificate(key, cert_lower_list) ==
    \E i \in DOMAIN cert_lower_list :
        /\ SplitCount(cert_lower_list[i]) >= SplitCount(key)
        /\ \/ key = cert_lower_list[i]
           \/ Contains(cert_lower_list[i], key)
           \/ Contains(key, cert_lower_list[i])

RECURSIVE cleaned_technical(_, _, _, _, _)
\* lines 729-757: the loop over technical_skills
cleaned_technical(technical_skills, aoi_lower, cert_lower_list, seen, kept) ==
    IF technical_skills = <<>> THEN kept
    ELSE Bind({ IF s = <<>> \/ Lower(s) \in aoi_lower
                   \/ matches_certificate(Lower(s), cert_lower_list) \/ Lower(s) \in seen
                THEN cleaned_technical(Tail(technical_skills), aoi_lower, cert_lower_list, seen, kept)
                ELSE cleaned_technical(Tail(technical_skills), aoi_lower, cert_lower_list,
                                       seen \cup {Lower(s)}, Append(kept, s))
              : s \in {Strip(PyToStr(Head(technical_skills)))} })

\* whether "for x in v" raises TypeError (v is a list, or a number that is true)
NotALoopable(v) == v.t \in {"int", "bool", "float"}

\* lines 712-760: data with the technical skills cleaned, or the exception raised
skills_step(data) ==
    IF data.t # "dict" THEN Raise("AttributeError")                      \* line 712: data.get
    ELSE LET skills_block == GetOr(data, "skills", EmptyDict) IN
    IF skills_block.t # "dict" THEN Raise("AttributeError")              \* line 714: skills_block.get
    ELSE LET technical_skills == split_items(GetOr(skills_block, "technical", PyList(<<>>)))
             aoi_list == split_items(GetOr(skills_block, "area_of_interest", PyList(<<>>)))
             certificates_list == certificate_items(GetOr(data, "certificates", PyList(<<>>)))
    IN IF NotALoopable(aoi_list) \/ NotALoopable(certificates_list) \/ NotALoopable(technical_skills)
       THEN Raise("TypeError")                                           \* lines 726, 727, 731
       ELSE Return(PyDict(
              ("skills" :> PyDict(
                  ("technical" :> PyList(
                      [i \in DOMAIN cleaned_technical(technical_skills.v, Range(stripped_lower(aoi_list.v)),
                                                      stripped_lower(certificates_list.v), {}, <<>>) |->
                          PyStr(cleaned_technical(technical_skills.v, Range(stripped_lower(aoi_list.v)),
                                                  stripped_lower(certificates_list.v), {}, <<>>)[i])]))
                  @@ skills_block.v))
              @@ data.v))


\* str(e) of a caught exception: the message, stood for by the name of its type
ExceptionText(e) == <<e>>

\* {"error": message}
ErrorMapping(message) == PyDict("error" :> PyStr(message))

\* the handler goes on with its next step; it returns a value; lines 797-800: it
\* returns the error mapping of an exception raised inside the try of line 589
Goto(next, l) == [pc |-> next, ret |-> PyNone, locals |-> l]

Finish(value, l) == [pc |-> "done", ret |-> value, locals |-> l]

Caught(e, l) == Finish(ErrorMapping(ExceptionText(e)), l)

\* lines 590-592: await upload_file.read()
read_step(a, l) ==
    IF a.upload_file.read = "raises" THEN Caught("OSError", l)
    ELSE IF a.upload_file.read = "empty"
    THEN Finish(ErrorMapping(<<"E","m","p","t","y"," ","f","i","l","e"," ","r","e","c","e","i","v","e","d","."," ","P","l","e","a","s","e"," ","u","p","l","o","a","d"," ","a"," ","v","a","l","i","d"," ","P","D","F",".">>), l)
    ELSE Goto("text", l)

\* line 595: the page texts joined by newlines
joined_pages(pdf) ==
    Join(<<"\n">>, [i \in DOMAIN pdf.pages |-> IF Truthy(pdf.pages[i]) THEN pdf.pages[i].v ELSE <<>>])

\* lines 594-601 with the client check before the check of the text
text_step_client_first(a, l) ==
    IF ~a.upload_file.pdf.readable THEN Caught("PDFSyntaxError", l)
    ELSE IF ~a.openrouter_client
    THEN Finish(ErrorMapping(<<"A","I"," ","c","l","i","e","n","t"," ","n","o","t"," ","c","o","n","f","i","g","u","r","e","d"," ","(","m","i","s","s","i","n","g"," ","O","P","E","N","R","O","U","T","E","R","_","A","P","I","_","K","E","Y",")",".">>), l)
    ELSE IF Strip(joined_pages(a.upload_file.pdf)) = <<>>
    THEN Finish(ErrorMapping(<<"N","o"," ","r","e","a","d","a","b","l","e"," ","t","e","x","t"," ","f","o","u","n","d"," ","i","n"," ","t","h","e"," ","u","p","l","o","a","d","e","d"," ","P","D","F",".">>), l)
    ELSE Goto("model", [l EXCEPT !.text = PyStr(joined_pages(a.upload_file.pdf))])

\* lines 594-601: pdfplumber opens the upload (or raises), the text, the client
text_step(a, l) ==
    IF ~a.upload_file.pdf.readable THEN Caught("PDFSyntaxError", l)
    ELSE IF Strip(joined_pages(a.upload_file.pdf)) = <<>>
    THEN Finish(ErrorMapping(<<"N","o"," ","r","e","a","d","a","b","l","e"," ","t","e","x","t"," ","f","o","u","n","d"," ","i","n"," ","t","h","e"," ","u","p","l","o","a","d","e","d"," ","P","D","F",".">>), l)
    ELSE IF ~a.openrouter_client
    THEN Finish(ErrorMapping(<<"A","I"," ","c","l","i","e","n","t"," ","n","o","t"," ","c","o","n","f","i","g","u","r","e","d"," ","(","m","i","s","s","i","n","g"," ","O","P","E","N","R","O","U","T","E","R","_","A","P","I","_","K","E","Y",")",".">>), l)
    ELSE Goto("model", [l EXCEPT !.text = PyStr(joined_pages(a.upload_file.pdf))])

\* line 685: ai_output.strip().replace("[3 backticks]json", "").replace("[3 backticks]", "")
unfenced(ai_output) ==
    RemoveAll(RemoveAll(Strip(ai_output), <<"BACKTICK","BACKTICK","BACKTICK","j","s","o","n">>),
              <<"BACKTICK","BACKTICK","BACKTICK">>)

\* lines 667-689: the call of the model and the parse of its reply
model_step(a, l) ==
    IF a.response.t = "error" THEN Finish(ErrorMapping(<<"A","I"," ","r","e","q","u","e","s","t"," ","f","a","i","l","e","d",":"," ">> \o ExceptionText("APIError")), l)
    ELSE IF a.response.choices = <<>>
    THEN Finish(ErrorMapping(<<"A","I"," ","r","e","q","u","e","s","t"," ","f","a","i","l","e","d",":"," ">> \o ExceptionText("IndexError")), l)
    ELSE IF a.response.choices[1].content.t # "str" THEN Caught("AttributeError", l)     \* line 685
    ELSE Bind({ IF parsed.raised
                THEN Finish(PyDict(("error" :> PyStr(<<"F","a","i","l","e","d"," ","t","o"," ","p","a","r","s","e"," ","A","I"," ","J","S","O","N",":"," ">> \o ExceptionText(parsed.exc)))
                                   @@ ("raw" :> PyStr(unfenced(a.response.choices[1].content.v)))), l)
                ELSE Goto("certificates", [l EXCEPT !.data = parsed.val])
              : parsed \in {json_loads(PyStr(unfenced(a.response.choices[1].content.v)))} })

\* lines 692-696
certificate_step(a, l) ==
    IF l.data.t # "dict" THEN Caught("AttributeError", l)                 \* line 692: data.get
    ELSE Bind({ IF cert_analysis.raised THEN Caught(cert_analysis.exc, l)
                ELSE Goto("projects", [l EXCEPT !.data = PyDict(("certificate_analysis" :> cert_analysis.val) @@ l.data.v)])
              : cert_analysis \in {evaluate_certificates(GetOr(l.data, "certificates", PyList(<<>>)),
                                                         TRUE, a.certificate_response)} })

\* lines 284-581 for a project_list that is no dict: results is the list that
\* lines 374-581 make of the model's reply
evaluate_projects(project_list, openrouter_client, results) ==
    IF ~openrouter_client THEN Return(PyList(<<>>))                       \* lines 312-314
    ELSE IF ~BoolOf(project_list) THEN Return(PyList(<<>>))               \* lines 316-318
    ELSE IF NotALoopable(project_list) THEN Raise("TypeError")            \* line 322: enumerate
    ELSE Return(results)

\* lines 699-706
project_step(a, l) ==
    IF "projects" \in DOMAIN l.data.v /\ BoolOf(l.data.v["projects"])
    THEN Bind({ IF projects.raised THEN Caught(projects.exc, l)
                ELSE Goto("score", [l EXCEPT !.data = PyDict(("project_analysis" :> projects.val) @@ l.data.v)])
              : projects \in {evaluate_projects(l.data.v["projects"], TRUE, a.project_results)} })
    ELSE Goto("score", [l EXCEPT !.data = PyDict(("project_analysis" :> PyList(<<>>)) @@ l.data.v)])

\* lines 764-771: data with the normalized languages
languages_step(data) ==
    Bind({ IF langs.raised THEN langs
           ELSE Return(PyDict(("languages" :> PyList([i \in DOMAIN langs.val |-> PyStr(langs.val[i])])) @@ data.v))
         : langs \in {language_step(data)} })

\* lines 778-785: the record of the report
report_of(upload_file, data, ats) ==
    PyDict(("filename" :> PyStr(upload_file.filename)) @@ ("data" :> data)
           @@ ("ats_breakdown" :> ats.ats_breakdown) @@ ("ats_score" :> ats.ats_score)
           @@ ("word_count" :> ats.word_count) @@ ("uploaded_at" :> utcnow))

\* await db.reports.insert_one(report) for the db of config.py lines 24-32: None
\* without MONGO_URI, else a pymongo database, whose insert_one raises, or inserts
\* and returns a result that await rejects
reports_insert_one(db, reports, report) ==
    CASE db = "none" -> [reports |-> reports, exc |-> "AttributeError"]
      [] db = "down" -> [reports |-> reports, exc |-> "ServerSelectionTimeoutError"]
      [] db = "up" -> [reports |-> Append(reports, report), exc |-> "TypeError"]

\* lines 790-795
result_of(data, ats) ==
    PyDict(("data" :> data) @@ ("ats_score" :> ats.ats_score)
           @@ ("ats_breakdown" :> ats.ats_breakdown) @@ ("word_count" :> ats.word_count))

\* lines 708-785 with the insert before the languages are normalized
score_step_saving(a, l) ==
    Bind({ IF skills.raised THEN Caught(skills.exc, l)
           ELSE Bind({ IF data.raised
                       THEN Caught(data.exc, [l EXCEPT !.reports = reports_insert_one(a.db, l.reports, skills.val).reports])
                       ELSE Goto("save", [l EXCEPT !.data = data.val,
                                                   !.ats = calculate_ats_score(data.val, l.text, data.val.v["languages"]).out.val])
                     : data \in {languages_step(skills.val)} })
         : skills \in {skills_step(l.data)} })

\* lines 708-774: the skills, the languages, the score
score_step(a, l) ==
    Bind({ IF skills.raised THEN Caught(skills.exc, l)
           ELSE Bind({ IF data.raised THEN Caught(data.exc, l)
                       ELSE Goto("save", [l EXCEPT !.data = data.val,
                                                   !.ats = calculate_ats_score(data.val, l.text, data.val.v["languages"]).out.val])
                     : data \in {languages_step(skills.val)} })
         : skills \in {skills_step(l.data)} })

\* lines 777-795 without the try of line 777
save_step_uncaught(a, l) ==
    Bind({ Caught(saved.exc, [l EXCEPT !.reports = saved.reports])
         : saved \in {reports_insert_one(a.db, l.reports, report_of(a.upload_file, l.data, l.ats))} })

\* lines 777-795: the insert, whose exception line 786 catches, and the result
save_step(a, l) ==
    Bind({ Finish(result_of(l.data, l.ats), [l EXCEPT !.reports = saved.reports])
         : saved \in {reports_insert_one(a.db, l.reports, report_of(a.upload_file, l.data, l.ats))} })

\* the step of process_resume_file at pc
step_of(a, st) ==
    CASE st.pc = "read" -> read_step(a, st.locals)
      [] st.pc = "text" -> text_step(a, st.locals)
      [] st.pc = "model" -> model_step(a, st.locals)
      [] st.pc = "certificates" -> certificate_step(a, st.locals)
      [] st.pc = "projects" -> project_step(a, st.locals)
      [] st.pc = "score" -> score_step(a, st.locals)
      [] st.pc = "save" -> save_step(a, st.locals)

RECURSIVE run_steps(_, _)
run_steps(a, st) == IF st.pc = "done" THEN st ELSE run_steps(a, step_of(a, st))

\* nothing read, parsed or scored yet; reports are the records of db.reports
locals_at_entry(reports) == [reports |-> reports, text |-> PyNone, data |-> PyNone, ats |-> PyNone]

\* lines 587-800: the value returned and the records of db.reports afterwards
process_resume_file(a, reports) ==
    Bind({ [ret |-> st.ret, reports |-> st.locals.reports]
         : st \in {run_steps(a, Goto("read", locals_at_entry(reports)))} })


(***************************************************************************)
(* The resume filter stream (routes/admin_resume_filter.py)                *)
(***************************************************************************)
\* float(text) of a decimal literal "d+", "d+.d*" with at most three decimals, in
\* thousandths
Thousandths(text) ==
    Bind({ 1000 * StrToInt(SubSeq(text, 1, whole), 0)
             + StrToInt(SubSeq(SubSeq(text, whole + 2, Len(text)) \o <<"0","0","0">>, 1, 3), 0)
         : whole \in {DigitRun(text, 1)} })

\* float(text) does not raise, for texts without sign, exponent or leading dot
IsDecimal(text) ==
    Bind({ /\ whole > 0
           /\ \/ whole = Len(text)
              \/ text[whole + 1] = "." /\ whole + 1 + DigitRun(text, whole + 2) = Len(text)
         : whole \in {DigitRun(text, 1)} })

\* lines 34-41
parse_percentage(value) ==
    IF ~BoolOf(value) THEN 0
    ELSE Bind({ IF IsDecimal(text) THEN Thousandths(text) ELSE 0
              : text \in {Strip(RemoveAll(StrOf(value), <<"%">>))} })

\* the first match of r"\d+(\.\d+)?" in text, "" if there is none
FirstDecimal(text) ==
    Bind({ IF starts = {} THEN <<>>
           ELSE Bind({ Bind({ IF i + n <= Len(text) /\ text[i + n] = "." /\ DigitRun(text, i + n + 1) > 0
                              THEN SubSeq(text, i, i + n + DigitRun(text, i + n + 1))
                              ELSE SubSeq(text, i, i + n - 1)
                            : n \in {DigitRun(text, i)} })
                     : i \in {Min(starts)} })
         : starts \in {{i \in DOMAIN text : IsDigit(text[i])}} })

\* lines 44-52
parse_cgpa(value) ==
    IF ~BoolOf(value) THEN 0
    ELSE Bind({ IF match = <<>> THEN 0 ELSE Thousandths(match)
              : match \in {Bind({ FirstDecimal(text) : text \in {StrOf(value)} })} })

\* [s.strip().lower() for s in text.split(",")] if text else [], lines 78-79
lowered_items(text) ==
    IF ~Truthy(text) THEN <<>>
    ELSE Bind({ [i \in DOMAIN items |-> Lower(Strip(items[i]))] : items \in {SplitFrom(text.v, <<",">>, 1)} })

\* lines 81-85
language_filters(language) ==
    IF ~Truthy(language) THEN <<>>
    ELSE LET names == SelectSeq(normalize_languages(language).val, LAMBDA l : l # <<>>)
         IN [i \in DOMAIN names |-> Strip(Lower(names[i]))]

\* lines 86-87
lowered(text) == IF Truthy(text) THEN Strip(Lower(text.v)) ELSE <<>>

\* lines 78-88: what the request computes from its form before the stream starts
request_filters(form) ==
    [cgpa |-> form.cgpa, cgpa_max |-> form.cgpa_max, tenth |-> form.tenth, tenth_max |-> form.tenth_max,
     twelfth |-> form.twelfth, twelfth_max |-> form.twelfth_max, ats |-> form.ats,
     skill_list |-> lowered_items(form.skills), area_filters |-> lowered_items(form.area_of_interest),
     language_filters |-> language_filters(form.language),
     department |-> lowered(form.department), degree |-> lowered(form.degree)]

\* obj.get(key, {}).get(field): raises when obj[key] is no dict
SubField(obj, key, field) == DictGet(GetDefault(obj, key, EmptyDict), field)

IsDictAt(obj, key) == GetDefault(obj, key, EmptyDict).t = "dict"

RECURSIVE AppendParts(_, _)
\* lines 123-126: the stripped, non-empty parts not yet in the list are appended
AppendParts(display, parts) ==
    IF parts = <<>> THEN display
    ELSE Bind({ AppendParts(more, rest)
              : more \in {Bind({ IF part_clean # <<>> /\ part_clean \notin Range(display)
                                 THEN Append(display, part_clean) ELSE display
                               : part_clean \in {Strip(Head(parts))} })},
                rest \in {Tail(parts)} })

RECURSIVE display_tech_skills(_, _)
\* lines 121-126: re.split(r"\s*\|\s*", str(item)) cuts at the pipes (the spaces
\* around a pipe, which the pattern takes with it, are what strip takes anyway)
display_tech_skills(raw_tech_skills, display) ==
    IF raw_tech_skills = <<>> THEN display
    ELSE Bind({ display_tech_skills(rest, more)
              : rest \in {Tail(raw_tech_skills)},
                more \in {Bind({ AppendParts(display, parts)
                               : parts \in {Bind({ SplitFrom(text, <<"|">>, 1) : text \in {StrOf(Head(raw_tech_skills))} })} })} })

\* the truthy items of a list, or of a str (its characters)
TruthyItems(x) == SelectSeq(IterItems(x), BoolOf)

\* lines 109-138 raise for this data: a get on what is no dict, a loop over what
\* is no list, lower() of what is no str
reading_raises(data) ==
    \/ data.t # "dict"
    \/ GetOr(data, "education", EmptyDict).t # "dict"
    \/ GetDefault(data, "languages", PyList(<<>>)).t \notin {"list", "str"}
    \/ \E x \in Range(TruthyItems(GetDefault(data, "languages", PyList(<<>>)))) : x.t # "str"
    \/ GetOr(data, "skills", EmptyDict).t # "dict"
    \/ GetOr(GetOr(data, "skills", EmptyDict), "technical", PyList(<<>>)).t \notin {"list", "str"}
    \/ GetDefault(data, "skills", EmptyDict).t # "dict"
    \/ GetDefault(GetDefault(data, "skills", EmptyDict), "area_of_interest", PyList(<<>>)).t \notin {"list", "str"}
    \/ \E x \in Range(TruthyItems(GetDefault(GetDefault(data, "skills", EmptyDict), "area_of_interest", PyList(<<>>)))) :
          x.t # "str"
    \/ \E k \in {"10th", "12th", "bachelor"} : ~IsDictAt(GetOr(data, "education", EmptyDict), k)

\* lines 141-168: some filter of the request (form: its filters) rejects the resume
filtered_out(form, ats_score, edu, langs_lower, tech_skills, interest_areas) ==
    \/ form.cgpa # PyNone /\ parse_cgpa(SubField(edu, "bachelor", "cgpa")) < form.cgpa.v
    \/ form.cgpa_max # PyNone /\ parse_cgpa(SubField(edu, "bachelor", "cgpa")) > form.cgpa_max.v
    \/ form.tenth # PyNone /\ parse_percentage(SubField(edu, "10th", "percentage")) < form.tenth.v
    \/ form.tenth_max # PyNone /\ parse_percentage(SubField(edu, "10th", "percentage")) > form.tenth_max.v
    \/ form.twelfth # PyNone /\ parse_percentage(SubField(edu, "12th", "percentage")) < form.twelfth.v
    \/ form.twelfth_max # PyNone /\ parse_percentage(SubField(edu, "12th", "percentage")) > form.twelfth_max.v
    \/ Truthy(form.ats) /\ ats_score < form.ats.v
    \/ /\ form.language_filters # <<>>
       /\ ~\E l \in Range(langs_lower) : \E f \in Range(form.language_filters) : Contains(l, f)
    \/ /\ form.department # <<>>
       /\ ~Contains(Lower(StrOf(GetDefault(GetDefault(edu, "bachelor", EmptyDict), "degree", PyStr(<<>>)))),
                    form.department)
    \/ /\ form.degree # <<>>
       /\ ~Contains(Lower(StrOf(GetDefault(GetDefault(edu, "bachelor", EmptyDict), "degree", PyStr(<<>>)))),
                    form.degree)
    \/ /\ form.skill_list # <<>>
       /\ ~\A skill \in Range(form.skill_list) : \E s \in Range(tech_skills) : Contains(s, skill)
    \/ /\ form.area_filters # <<>>
       /\ ~\E area \in Range(interest_areas) :
             \E af \in Range(form.area_filters) : Contains(area, af)

\* lines 171-183: the record of an accepted resume
filtered_record(file, data, display) ==
    PyDict(("filename" :> PyStr(file.filename)) @@ ("name" :> DictGet(data, "name"))
           @@ ("email" :> (IF Truthy(DictGet(data, "email")) THEN DictGet(data, "email") ELSE DictGet(file.parsed, "email")))
           @@ ("phone" :> (IF Truthy(DictGet(data, "phone")) THEN DictGet(data, "phone") ELSE DictGet(file.parsed, "phone")))
           @@ ("ats_score" :> GetDefault(file.parsed, "ats_score", 0))
           @@ ("education" :> GetOr(data, "education", EmptyDict))
           @@ ("skills" :> PyDict(("technical" :> PyList([i \in DOMAIN display |-> PyStr(display[i])]))
                                  @@ GetOr(data, "skills", EmptyDict).v))
           @@ ("languages" :> PyList(TruthyItems(GetDefault(data, "languages", PyList(<<>>)))))
           @@ ("area_of_interest" :> GetDefault(GetOr(data, "skills", EmptyDict), "area_of_interest", PyList(<<>>))))

\* no record: the loop goes on with the next file
Skipped(why) == [outcome |-> why, result |-> PyNone]

\* lines 95-207 for one file: what becomes of it, and its record when it is accepted
file_outcome(file, form) ==
    IF file.read = "raises" THEN Skipped("exception")                          \* line 101, 205-207
    ELSE IF file.read = "empty" THEN Skipped("empty")                         \* lines 102-104
    ELSE IF ~Truthy(file.parsed) \/ Truthy(DictGet(file.parsed, "error"))
    THEN Skipped("parse error")                                               \* lines 108-110
    ELSE IF reading_raises(GetDefault(file.parsed, "data", EmptyDict)) THEN Skipped("exception")
    ELSE Bind({ IF filtered_out(form, GetDefault(file.parsed, "ats_score", 0), GetOr(data, "education", EmptyDict),
                                [i \in DOMAIN TruthyItems(GetDefault(data, "languages", PyList(<<>>))) |->
                                    Strip(Lower(TruthyItems(GetDefault(data, "languages", PyList(<<>>)))[i].v))],
                                [i \in DOMAIN display |-> Lower(display[i])],
                                [i \in DOMAIN TruthyItems(GetDefault(GetDefault(data, "skills", EmptyDict), "area_of_interest", PyList(<<>>))) |->
                                    Strip(Lower(TruthyItems(GetDefault(GetDefault(data, "skills", EmptyDict), "area_of_interest", PyList(<<>>)))[i].v))])
                THEN Skipped("filtered out")
                ELSE [outcome |-> "accepted", result |-> filtered_record(file, data, display)]
              : data \in {GetDefault(file.parsed, "data", EmptyDict)},
                display \in {display_tech_skills(
                                IterItems(GetOr(GetOr(GetDefault(file.parsed, "data", EmptyDict), "skills", EmptyDict), "technical", PyList(<<>>))),
                                <<>>)} })

\* lines 187-194
progress_payload(i, processed_count, total_files, file, results) ==
    PyDict(("progress" :> i) @@ ("processed" :> processed_count) @@ ("total" :> total_files)
           @@ ("latest_filename" :> PyStr(file.filename))
           @@ ("latest_name" :> results[Len(results)].v["name"])
           @@ ("results_so_far" :> PyList(results)))

\* line 210
final_payload(results) == PyDict(("done" :> TRUE) @@ ("results" :> PyList(results)) @@ ("count" :> Len(results)))

\* lines 94-207 with every record sent again for every later file
handle_file_resending(a, l) ==
    Bind({ IF o.outcome # "accepted" THEN [l EXCEPT !.i = l.i + 1]
           ELSE [l EXCEPT !.i = l.i + 1, !.results = Append(l.results, o.result),
                          !.processed_count = l.processed_count + 1,
                          !.events = l.events \o [k \in 1..(l.processed_count + 1) |->
                               progress_payload(l.i, l.processed_count + 1, l.total_files, a.files[l.i],
                                                Append(l.results, o.result))]]
         : o \in {file_outcome(a.files[l.i], l.filters)} })

\* lines 94-207: one turn of the loop of event_stream, for the file at l.i
handle_file(a, l) ==
    Bind({ IF o.outcome # "accepted" THEN [l EXCEPT !.i = l.i + 1]
           ELSE [l EXCEPT !.i = l.i + 1, !.results = Append(l.results, o.result),
                          !.processed_count = l.processed_count + 1,
                          !.events = Append(l.events,
                                   progress_payload(l.i, l.processed_count + 1, l.total_files, a.files[l.i],
                                                    Append(l.results, o.result)))]
         : o \in {file_outcome(a.files[l.i], l.filters)} })


(***************************************************************************)
(* The calls of extract_resume_details that are explored                   *)
(***************************************************************************)
\* the text of a page
page_texts ==
    << <<"T","E","C","H","N","I","C","A","L"," ","S","K","I","L","L","S","\n","P","y","t","h","o","n",","," ","R","e","a","c","t">>,
       <<"A","r","e","a","s"," ","o","f"," ","I","n","t","e","r","e","s","t",":"," "," ","A","I"," ">>,
       <<"P","R","O","J","E","C","T","S","\n","B","u","i","l","t"," ","a"," ","R","e","a","c","t"," ","a","p","p">>,
       <<" ","S","u","m","m","a","r","y","\t","s","e","a","s","o","n","e","d"," ","\n","\n"," ","e","n","g","i","n","e","e","r","\n">>,
       <<"M","y"," ","p","a","s","s","i","o","n"," ","i","s"," ","w","e","b"," ","d","e","s","i","g","n">>,
       <<"T","e","c","h"," ","S","t","a","c","k"," ","|"," ","G","o">>, <<>> >>

MaxPages == 2

\* uploads: an unreadable file, and files of at most MaxPages pages, a page
\* having one of the texts or none
PageValues == {PyNone} \cup {PyStr(page_texts[k]) : k \in DOMAIN page_texts}

PdfFiles ==
    {UnreadablePdf}
    \cup UNION {{PdfWithPages(AsSeq(p, n)) : p \in [1..n -> PageValues]} : n \in 0..MaxPages}

\* the content of a reply of the language model
reply_texts ==
    << <<"{","\"","t","e","c","h","n","i","c","a","l","_","s","k","i","l","l","s","\"",":"," ","[","\"","P","y","t","h","o","n","\"",","," ","\"","R","e","a","c","t","\"","]",","," ","\"","a","r","e","a","s","_","o","f","_","i","n","t","e","r","e","s","t","\"",":"," ","[","\"","A","I","\"","]","}">>,
       <<"{","\"","t","e","c","h","n","i","c","a","l","_","s","k","i","l","l","s","\"",":"," ","\"","n","o","t"," ","f","o","u","n","d","\"",","," ","\"","a","r","e","a","s","_","o","f","_","i","n","t","e","r","e","s","t","\"",":"," ","\"","n","o","t"," ","f","o","u","n","d","\"","}">>,
       <<"{","\"","t","e","c","h","n","i","c","a","l","_","s","k","i","l","l","s","\"",":"," ","[","]",","," ","\"","a","r","e","a","s","_","o","f","_","i","n","t","e","r","e","s","t","\"",":"," ","\"","n","o","t"," ","f","o","u","n","d","\"","}">>,
       <<"{","}">>,
       <<"{","\"","a","r","e","a","s","_","o","f","_","i","n","t","e","r","e","s","t","\"",":"," ","[","\"","A","I","\"","]","}">>,
       <<"H","e","r","e"," ","i","s"," ","t","h","e"," ","J","S","O","N",":","\n","{","\"","t","e","c","h","n","i","c","a","l","_","s","k","i","l","l","s","\"",":"," ","[","\"","P","y","t","h","o","n","\"","]",","," ","\"","a","r","e","a","s","_","o","f","_","i","n","t","e","r","e","s","t","\"",":"," ","\"","n","o","t"," ","f","o","u","n","d","\"","}","\n","D","o","n","e",".">>,
       <<"I"," ","c","o","u","l","d"," ","n","o","t"," ","f","i","n","d"," ","a","n","y"," ","s","k","i","l","l","s",".">>,
       <<"{","t","e","c","h","n","i","c","a","l","_","s","k","i","l","l","s",":"," ","n","o","t"," ","f","o","u","n","d","}">>,
       <<"[","\"","P","y","t","h","o","n","\"","]">>, <<"n","u","l","l">>,
       <<"\"","n","o","t"," ","f","o","u","n","d","\"">>,
       <<" ","{","\"","t","e","c","h","n","i","c","a","l","_","s","k","i","l","l","s","\"",":"," ","n","u","l","l",","," ","\"","a","r","e","a","s","_","o","f","_","i","n","t","e","r","e","s","t","\"",":"," ","3",",","\n","\"","t","e","c","h","n","i","c","a","l","_","s","k","i","l","l","s","\"",":"," ","\"","n","o","t"," ","\\","\"","f","o","u","n","d","\\","\"","\"","}"," ">>,
       <<"{","\"","a","\"",":"," ","1","}"," ","a","n","d"," ","{","\"","b","\"",":"," ","-","2",".","5","e","3","}">>,
       <<>>,
       <<"{","\"","t","e","c","h","n","i","c","a","l","_","s","k","i","l","l","s","\"",":"," ","[","\"","P","y","t","h","o","n","\"",",","]",","," ","\"","a","r","e","a","s","_","o","f","_","i","n","t","e","r","e","s","t","\"",":"," ","t","r","u","e","}">>,
       <<"}"," ","{">> >>

\* what chat.completions.create may do: raise, return no choice, or return a
\* message whose content is None or one of the replies
Responses ==
    {ApiError, Completion(<<>>), Completion(<<[content |-> PyNone]>>)}
    \cup {Completion(<<[content |-> PyStr(reply_texts[k])]>>) : k \in DOMAIN reply_texts}

\* a call of extract_resume_details is pending, with or without a configured client
InitStrict ==
    /\ op = "extract_resume_details"
    /\ args \in [file_bytes : PdfFiles, openrouter_client : BOOLEAN]
    /\ pc = "call"
    /\ ret = <<>>
    /\ locals = <<>>

\* lines 1005-1009: the text is read and normalized, the headings are looked for
ReadResume ==
    /\ pc = "call"
    /\ op = "extract_resume_details"
    /\ locals' = resume_details_locals(args.file_bytes)
    /\ pc' = "request"
    /\ UNCHANGED <<op, args, ret>>

\* line 975 without a client: the attribute access on None raises
ClientMissing ==
    /\ pc = "request"
    /\ op = "extract_resume_details"
    /\ ~args.openrouter_client
    /\ ret' = extract_resume_details(args.file_bytes, FALSE, ApiError)
    /\ pc' = "done"
    /\ UNCHANGED <<op, args, locals>>

\* lines 975-1001: the model call ends and its reply is parsed and returned
ModelResponds ==
    /\ pc = "request"
    /\ op = "extract_resume_details"
    /\ args.openrouter_client
    /\ \E response \in Responses :
          /\ ret' = extract_resume_details(args.file_bytes, TRUE, response)
          /\ locals' = [response |-> response] @@ locals
    /\ pc' = "done"
    /\ UNCHANGED <<op, args>>

NextStrict == ReadResume \/ ClientMissing \/ ModelResponds

SpecStrict == InitStrict /\ [][NextStrict]_vars

(***************************************************************************)
(* The calls of extract_technical_skills that are explored                 *)
(***************************************************************************)
\* the heading line of a skills section
skill_heading_lines ==
    << <<"T","E","C","H","N","I","C","A","L"," ","S","K","I","L","L","S">>,
       <<"S","k","i","l","l","s",":">>,
       <<"T","o","o","l","s"," ","a","n","d"," ","T","e","c","h","n","o","l","o","g","i","e","s">> >>

\* the items listed under it
skill_items ==
    << <<"P","y","t","h","o","n">>, <<"R","e","a","c","t">>, <<"M","y","S","Q","L">>,
       <<"N","o","d","e"," ","J","S">>, <<"K","8","s">> >>

\* what separates two items
item_delimiters ==
    << <<","," ">>, <<" ","|"," ">>, <<"\n">> >>

\* the section that follows
later_sections ==
    << <<"P","R","O","J","E","C","T","S","\n","B","u","i","l","t"," ","a"," ","c","h","a","t"," ","a","p","p">>,
       <<"E","d","u","c","a","t","i","o","n",":","\n","B",".","T","e","c","h"," ","2","0","2","0",";"," ","C","G","P","A"," ","8",".","5">> >>

MaxSkillItems == 2

\* a document: a heading line, one to MaxSkillItems items, then a later section
SkillDocs ==
    [ heading : DOMAIN skill_heading_lines,
      delimiter : DOMAIN item_delimiters,
      items : UNION {[1..n -> DOMAIN skill_items] : n \in 1..MaxSkillItems},
      later : DOMAIN later_sections ]

\* the text of a document
DocText(d) ==
    skill_heading_lines[d.heading] \o <<"\n">>
    \o Join(item_delimiters[d.delimiter], AsSeq([k \in DOMAIN d.items |-> skill_items[d.items[k]]], Len(d.items)))
    \o <<"\n">> \o later_sections[d.later]

\* the example of spec.md section 8
SkillsExample == <<"T","E","C","H","N","I","C","A","L"," ","S","K","I","L","L","S","\n","P","y","t","h","o","n",","," ","R","e","a","c","t",","," ","M","y","S","Q","L","\n","P","R","O","J","E","C","T","S","\n","B","u","i","l","t"," ","a"," ","c","h","a","t"," ","a","p","p">>

\* a list with items that start with a digit, a hyphen or an underscore, a repeated
\* item and items of one character once the version is removed
DigitFirstText ==
    <<"S","k","i","l","l","s","\n","3","d"," ","m","o","d","e","l","i","n","g",","," ","2","f","a",","," ","x"," ","1",".","0",","," ","-","a","b",";"," ","_","x"," ","|"," ","J","A","V","A",","," ","j","a","v","a"," ","1","7",","," ","R"," ","4",".","1","\n">>

\* texts without a skills heading, with versions and one-letter items, and with
\* nothing under the heading
other_skill_texts ==
    << <<>>, <<"\n">>, <<"P","y","t","h","o","n",","," ","R","e","a","c","t">>,
       <<"s","k","i","l","l","s",":","\n","p","y","t","h","o","n"," ","3",".","8",","," ","c",","," ","a","1","\n">>,
       <<"S","k","i","l","l","s","\n">>,
       <<"S","u","m","m","a","r","y",":"," ","b","u","i","l","t"," ","A","P","I","s"," ","i","n"," ","G","o","/","R","u","s","t"," ","BULLET"," ","D","o","c","k","e","r"," ","MIDDOT"," ","k","8","s">>,
       <<"l","a","n","g","u","a","g","e","s",":"," ","C",";"," ","R",";"," ","p","o","w","e","r"," ","b","i"," ","|"," ","p","o","w","e","r","b","i">>,
       DigitFirstText >>

SkillTexts ==
    {DocText(d) : d \in SkillDocs} \cup {SkillsExample} \cup Range(other_skill_texts)

\* a call of extract_technical_skills is pending
InitSkills ==
    /\ op = "extract_technical_skills"
    /\ args \in {PyStr(t) : t \in SkillTexts} \cup {PyNone}
    /\ pc = "call"
    /\ ret = <<>>
    /\ locals = <<>>

ExtractTechnicalSkills ==
    /\ pc = "call"
    /\ op = "extract_technical_skills"
    /\ ret' = extract_technical_skills(args)
    /\ pc' = "done"
    /\ UNCHANGED <<op, args, locals>>

NextSkills == ExtractTechnicalSkills

SpecSkills == InitSkills /\ [][NextSkills]_vars

(***************************************************************************)
(* The calls of normalize_text that are explored                           *)
(***************************************************************************)
\* pieces of text: words and the whitespace characters
text_chunks ==
    << <<"S","k","i","l","l","s">>, <<"a">>, <<" ">>, <<"\n">>, <<"\t">>, <<" ","\r","\n"," ">> >>

MaxTextChunks == 4

\* strings of at most MaxTextChunks pieces, in any order
NormalizeTextInputs ==
    {Concat([i \in DOMAIN p |-> text_chunks[p[i]]]) : p \in SeqsUpTo(Len(text_chunks), MaxTextChunks)}

\* a call of normalize_text is pending
InitText ==
    /\ op = "normalize_text"
    /\ args \in {PyStr(t) : t \in NormalizeTextInputs}
    /\ pc = "call"
    /\ ret = <<>>
    /\ locals = <<>>

NormalizeText ==
    /\ pc = "call"
    /\ op = "normalize_text"
    /\ ret' = Return(normalize_text(args.v))
    /\ pc' = "done"
    /\ UNCHANGED <<op, args, locals>>

\* the caller passes the result to normalize_text once more
NormalizeTextAgain ==
    /\ pc = "done"
    /\ op = "normalize_text"
    /\ locals' = [first |-> ret.val]
    /\ ret' = Return(normalize_text(ret.val))
    /\ pc' = "again"
    /\ UNCHANGED <<op, args>>

NextText == NormalizeText \/ NormalizeTextAgain

SpecText == InitText /\ [][NextText]_vars

(***************************************************************************)
(* The calls of normalize_skill that are explored                          *)
(***************************************************************************)
\* tokens that are neither a key nor an alias, some padded or in upper case
other_skill_tokens ==
    << <<"P","y","t","h","o","n">>, <<" ","M","S"," ","E","x","c","e","l"," ">>, <<"K","8","S">>,
       <<"R","e","a","c","t"," ","J","S","\n">>, <<"f","o","o"," ","b","a","r">>, <<>>, <<" "," ">>,
       <<"C">>, <<"g","o","o","g","l","e"," ","c","l","o","u","d">>,
       <<"P","o","w","e","r"," ","B","I">> >>

\* every canonical key, every alias, and the other tokens
SkillTokens ==
    {SKILL_SYNONYMS[k].canonical : k \in DOMAIN SKILL_SYNONYMS}
    \cup UNION {Range(SKILL_SYNONYMS[k].aliases) : k \in DOMAIN SKILL_SYNONYMS}
    \cup Range(other_skill_tokens)

\* a call of normalize_skill is pending
InitSynonyms ==
    /\ op = "normalize_skill"
    /\ args \in {PyStr(t) : t \in SkillTokens}
    /\ pc = "call"
    /\ ret = <<>>
    /\ locals = <<>>

NormalizeSkill ==
    /\ pc = "call"
    /\ op = "normalize_skill"
    /\ ret' = Return(normalize_skill(args.v))
    /\ pc' = "done"
    /\ UNCHANGED <<op, args, locals>>

NextSynonyms == NormalizeSkill

SpecSynonyms == InitSynonyms /\ [][NextSynonyms]_vars

(***************************************************************************)
(* The calls of extract_programming_languages that are explored            *)
(***************************************************************************)
\* the letter alone, inside and at the end of other tokens, its separators, the
\* word "languages", and names that overlap
prog_chunks ==
    << <<"R">>, <<"r">>, <<" ">>, <<",">>, <<"s","e","r","v","e","r">>, <<"D","o","c","k","e","r">>,
       <<"l","a","n","g","u","a","g","e","s">>, <<"J","a","v","a">>,
       <<"j","a","v","a","s","c","r","i","p","t">>, <<"C","+","+">>, <<"\n">> >>

MaxProgChunks == 3

\* strings of at most MaxProgChunks pieces, in any order
ProgTexts ==
    {Concat([i \in DOMAIN p |-> prog_chunks[p[i]]]) : p \in SeqsUpTo(Len(prog_chunks), MaxProgChunks)}

\* a skills line that names the letter among other languages
ProgExample ==
    <<"S","k","i","l","l","s",":"," ","P","y","t","h","o","n",","," ","R",","," ","C","+","+"," ","a","n","d"," ","J","a","v","a">>

\* a call of extract_programming_languages is pending
InitProg ==
    /\ op = "extract_programming_languages"
    /\ args \in {PyStr(t) : t \in ProgTexts \cup {ProgExample}} \cup {PyNone}
    /\ pc = "call"
    /\ ret = <<>>
    /\ locals = <<>>

ExtractProgrammingLanguages ==
    /\ pc = "call"
    /\ op = "extract_programming_languages"
    /\ ret' = extract_programming_languages(args)
    /\ pc' = "done"
    /\ UNCHANGED <<op, args, locals>>

NextProg == ExtractProgrammingLanguages

SpecProg == InitProg /\ [][NextProg]_vars

(***************************************************************************)
(* Interleaved calls on different documents                                *)
(*                                                                         *)
(* Each worker runs one call.  op, args, pc and ret hold one entry per     *)
(* worker; locals holds the module-level tables and one frame of local     *)
(* variables per worker.  extract_technical_skills takes three steps (the  *)
(* section pass, the whole-text pass, the cleaning) and                    *)
(* extract_programming_languages two, so that other calls run in between.  *)
(***************************************************************************)
Workers == {"w1", "w2"}

\* the module-level tables, built once at import
StaticTables ==
    [SKILL_SYNONYMS |-> SKILL_SYNONYMS,
     PROGRAMMING_LANGUAGES |-> PROGRAMMING_LANGUAGES,
     PROGRAMMING_SYNONYMS |-> PROGRAMMING_SYNONYMS,
     TECH_SKILL_HEADINGS |-> TECH_SKILL_HEADINGS,
     AREA_INTEREST_HEADINGS |-> AREA_INTEREST_HEADINGS]

\* two documents for each of the five functions
ConcurrentCalls ==
    { [op |-> "calculate_ats_score", args |-> [data |-> RecordWith(4), text |-> PyStr(SkillsExample)]],
      [op |-> "calculate_ats_score", args |-> [data |-> RecordWith(1), text |-> PyStr(ProgExample)]],
      [op |-> "normalize_languages", args |-> PyStr(LangExample)],
      [op |-> "normalize_languages", args |-> PyList(<<PyStr(<<"t","a","m","i","l">>), PyStr(<<"H","i","n","d","i">>)>>)],
      [op |-> "normalize_skill", args |-> PyStr(<<" ","M","S"," ","E","x","c","e","l"," ">>)],
      [op |-> "normalize_skill", args |-> PyStr(<<"R","e","a","c","t">>)],
      [op |-> "extract_technical_skills", args |-> PyStr(SkillsExample)],
      [op |-> "extract_technical_skills", args |-> PyStr(DigitFirstText)],
      [op |-> "extract_programming_languages", args |-> PyStr(ProgExample)],
      [op |-> "extract_programming_languages", args |-> PyStr(<<"D","o","c","k","e","r",","," ","j","s"," ","a","n","d"," ","g","o","l","a","n","g">>)] }

\* the local variables of a call before its first step
EmptyFrame == [text |-> <<>>, all_skills |-> {}, found |-> {}]

\* every worker has a pending call
InitConcurrent ==
    /\ \E calls \in [Workers -> ConcurrentCalls] :
          /\ op = [w \in Workers |-> calls[w].op]
          /\ args = [w \in Workers |-> calls[w].args]
    /\ pc = [w \in Workers |-> "call"]
    /\ ret = [w \in Workers |-> <<>>]
    /\ locals = [tables |-> StaticTables, frames |-> [w \in Workers |-> EmptyFrame]]

\* the set that the cleaning of a call reads, were all_skills a module-level set
AllSkills_global(frames, w) == UNION {frames[v].all_skills : v \in Workers}

\* line 1296: all_skills is a set created by the call, so the cleaning of lines
\* 1349-1352 reads what this call added
AllSkills(frames, w) == frames[w].all_skills

\* a function that runs in one step
WholeCall(w) ==
    /\ pc[w] = "call"
    /\ op[w] \in {"calculate_ats_score", "normalize_languages", "normalize_skill"}
    /\ ret' = [ret EXCEPT ![w] =
                 CASE op[w] = "calculate_ats_score" -> calculate_ats_score(args[w].data, args[w].text, PyNone).out
                   [] op[w] = "normalize_languages" -> normalize_languages(args[w])
                   [] op[w] = "normalize_skill" -> Return(normalize_skill(args[w].v))]
    /\ pc' = [pc EXCEPT ![w] = "done"]
    /\ UNCHANGED <<op, args, locals>>

\* lines 1265-1324: the lowercased text is searched for sections
SectionPass(w) ==
    /\ pc[w] = "call"
    /\ op[w] = "extract_technical_skills"
    /\ locals' = [locals EXCEPT !.frames[w] =
                    [@ EXCEPT !.text = args[w].v, !.all_skills = section_skills(Lower(args[w].v))]]
    /\ pc' = [pc EXCEPT ![w] = "whole_text"]
    /\ UNCHANGED <<op, args, ret>>

\* lines 1326-1346: the local name text is bound to a new string, whose parts are added
WholeTextPass(w) ==
    /\ pc[w] = "whole_text"
    /\ locals' = [locals EXCEPT !.frames[w] =
                    [@ EXCEPT !.text = ReplacePipes(@), !.all_skills = @ \cup text_skills(locals.frames[w].text)]]
    /\ pc' = [pc EXCEPT ![w] = "clean"]
    /\ UNCHANGED <<op, args, ret>>

\* lines 1349-1352
CleanSkills(w) ==
    /\ pc[w] = "clean"
    /\ ret' = [ret EXCEPT ![w] = Return(clean_skills(AllSkills(locals.frames, w)))]
    /\ pc' = [pc EXCEPT ![w] = "done"]
    /\ UNCHANGED <<op, args, locals>>

\* lines 1047-1064: the lowercased text is bound to the local name and searched
FindLanguages(w) ==
    /\ pc[w] = "call"
    /\ op[w] = "extract_programming_languages"
    /\ locals' = [locals EXCEPT !.frames[w] =
                    [@ EXCEPT !.text = Lower(args[w].v), !.found = found(Lower(args[w].v))]]
    /\ pc' = [pc EXCEPT ![w] = "filter"]
    /\ UNCHANGED <<op, args, ret>>

\* lines 1067-1074
CleanLanguages(w) ==
    /\ pc[w] = "filter"
    /\ ret' = [ret EXCEPT ![w] = Return(Sorted(cleaned(locals.frames[w].found, locals.frames[w].text)))]
    /\ pc' = [pc EXCEPT ![w] = "done"]
    /\ UNCHANGED <<op, args, locals>>

NextConcurrent ==
    \E w \in Workers :
        \/ WholeCall(w)
        \/ SectionPass(w)
        \/ WholeTextPass(w)
        \/ CleanSkills(w)
        \/ FindLanguages(w)
        \/ CleanLanguages(w)

SpecConcurrent == InitConcurrent /\ [][NextConcurrent]_vars

(***************************************************************************)
(* The calls of generate_guidance that are explored                        *)
(***************************************************************************)
\* no record, an empty one, records with skills and interests of every alignment
\* rule tested, and records whose skills block, skill list or entries have another
\* shape
GuidanceRecords ==
    { PyNone,
      EmptyDict,
      PyDict(("skills" :> PyDict(("technical" :> PyList(<<PyStr(<<"P","y","t","h","o","n">>), PyStr(<<"R","e","a","c","t">>)>>)) @@ ("area_of_interest" :> PyList(<<PyStr(<<"W","e","b">>)>>))))),
      PyDict(("skills" :> PyList(<<PyStr(<<"p","y","t","h","o","n">>)>>))),
      PyDict(("skills" :> PyDict(("technical" :> PyList(<<PyNone, PyStr(<<"P","y","t","h","o","n">>)>>))))),
      PyDict(("skills" :> PyDict(("technical" :> PyStr(<<"p","y","t","h","o","n">>))))),
      PyDict(("skills" :> PyDict(("technical" :> PyList(<<PyStr(<<"M","S"," ","W","o","r","d">>), PyStr(<<"p","a","n","d","a","s">>), PyStr(<<"S","Q","L">>), PyStr(<<" ">>), PyStr(<<"l","i","n","u","x">>)>>)) @@ ("area_of_interest" :> PyList(<<PyStr(<<"D","a","t","a"," ","a","n","a","l","y","t","i","c","s">>)>>))))),
      PyDict(("skills" :> PyDict(("technical" :> PyNone) @@ ("area_of_interest" :> PyList(<<PyStr(<<"c","l","o","u","d">>), PyStr(<<"a","i">>)>>))))),
      PyDict(("skills" :> PyDict(("technical" :> PyList(<<PyStr(<<"g","i","t">>)>>)) @@ ("area_of_interest" :> PyList(<<PyNone>>))))),
      PyDict(("name" :> PyStr(<<"A">>)) @@ ("skills" :> PyDict(("technical" :> PyInt(5))))) }

\* replies: no JSON, a list, an empty object, empty lists, filled sections (plain and
\* fenced), sections of the wrong type
guidance_replies ==
    << <<"n","o","t"," ","j","s","o","n">>,
       <<"[","]">>,
       <<"{","}">>,
       <<"{","\"","t","e","c","h","n","i","c","a","l","_","s","k","i","l","l","s","\"",":"," ","[","]",","," ","\"","c","a","r","e","e","r","_","c","l","a","r","i","t","y","_","s","u","m","m","a","r","y","\"",":"," ","{","\"","a","\"",":"," ","1","}","}">>,
       <<"{","\"","t","e","c","h","n","i","c","a","l","_","s","k","i","l","l","s","\"",":"," ","[","{","\"","n","a","m","e","\"",":"," ","\"","x","\"","}","]",","," ","\"","c","a","r","e","e","r","_","c","l","a","r","i","t","y","_","s","u","m","m","a","r","y","\"",":"," ","{","\"","p","r","i","m","a","r","y","_","a","l","i","g","n","m","e","n","t","\"",":"," ","\"","W","e","b","\"","}","}">>,
       <<"BACKTICK","BACKTICK","BACKTICK","j","s","o","n","\n","{","\"","t","e","c","h","n","i","c","a","l","_","s","k","i","l","l","s","\"",":"," ","[","{","\"","n","a","m","e","\"",":"," ","\"","x","\"","}","]",","," ","\"","c","a","r","e","e","r","_","c","l","a","r","i","t","y","_","s","u","m","m","a","r","y","\"",":"," ","{","\"","p","r","i","m","a","r","y","_","a","l","i","g","n","m","e","n","t","\"",":"," ","\"","W","e","b","\"","}","}","\n","BACKTICK","BACKTICK","BACKTICK">>,
       <<"{","\"","t","e","c","h","n","i","c","a","l","_","s","k","i","l","l","s","\"",":"," ","\"","x","\"",","," ","\"","w","e","e","k","l","y","_","s","c","h","e","d","u","l","e","\"",":"," ","{","\"","a","\"",":"," ","1","}","}">>,
       <<"{","\"","w","e","e","k","l","y","_","s","c","h","e","d","u","l","e","\"",":"," ","[","1","]",","," ","\"","e","x","t","r","a","\"",":"," ","2","}">> >>

\* the API fails, answers without a choice, without content, or with a reply
GuidanceResponses ==
    {ApiError, Completion(<<>>), Completion(<<[content |-> PyNone]>>)}
    \cup {Completion(<<[content |-> PyStr(guidance_replies[k])]>>) : k \in DOMAIN guidance_replies}

\* a call of generate_guidance is pending, with or without a configured client
InitGuidance ==
    /\ op = "generate_guidance"
    /\ args \in [resume_data : GuidanceRecords, openrouter_client : BOOLEAN, response : GuidanceResponses]
    /\ pc = "call"
    /\ ret = <<>>
    /\ locals = <<>>

GenerateGuidance ==
    /\ pc = "call"
    /\ op = "generate_guidance"
    /\ ret' = generate_guidance(args.resume_data, args.openrouter_client, args.response)
    /\ pc' = "done"
    /\ UNCHANGED <<op, args, locals>>

NextGuidance == GenerateGuidance

SpecGuidance == InitGuidance /\ [][NextGuidance]_vars

(***************************************************************************)
(* The calls of evaluate_certificates and of the certificate step explored *)
(***************************************************************************)
\* no list, an empty one, a number, a boolean, a str, lists with and without a
\* usable entry
CertLists ==
    { PyNone,
      PyList(<<>>),
      PyInt(5),
      PyBool(TRUE),
      PyStr(<<"A","W","S">>),
      PyList(<<PyStr(<<"A","W","S">>), PyNone, PyInt(3)>>),
      PyList(<<PyStr(<<" ">>)>>),
      PyList(<<PyStr(<<"A","W","S"," ","C","e","r","t","i","f","i","e","d"," ","D","e","v","e","l","o","p","e","r">>)>>) }

\* replies: no JSON, an empty list, an object, a number, a list of results (plain
\* and fenced), an object with results
cert_replies ==
    << <<"n","o","t"," ","j","s","o","n">>,
       <<"[","]">>,
       <<"{","\"","a","\"",":"," ","1","}">>,
       <<"3">>,
       <<"[","{","\"","c","e","r","t","i","f","i","c","a","t","e","\"",":"," ","\"","A","W","S","\"",","," ","\"","w","o","r","t","h","i","n","e","s","s","_","s","c","o","r","e","\"",":"," ","\"","7","7","\"",","," ","\"","h","i","g","h","l","i","g","h","t","\"",":"," ","\"","y","e","s","\"",","," ","\"","r","e","a","s","o","n","\"",":"," ","\""," ","c","l","o","u","d"," ","\"","}",","," ","3",","," ","{","\"","c","e","r","t","i","f","i","c","a","t","e","\"",":"," ","\"","\"","}","]">>,
       <<"BACKTICK","BACKTICK","BACKTICK","j","s","o","n","\n","[","{","\"","c","e","r","t","i","f","i","c","a","t","e","\"",":"," ","\"","A","W","S","\"",","," ","\"","w","o","r","t","h","i","n","e","s","s","_","s","c","o","r","e","\"",":"," ","1","2","0","}","]","\n","BACKTICK","BACKTICK","BACKTICK">>,
       <<"{","\"","r","e","s","u","l","t","s","\"",":"," ","[","{","\"","c","e","r","t","i","f","i","c","a","t","e","\"",":"," ","\"","A","W","S","\"",","," ","\"","h","i","g","h","l","i","g","h","t","\"",":"," ","t","r","u","e","}","]","}">> >>

\* the API fails, answers without a choice, without content, or with a reply
CertResponses ==
    {ApiError, Completion(<<>>), Completion(<<[content |-> PyNone]>>)}
    \cup {Completion(<<[content |-> PyStr(cert_replies[k])]>>) : k \in DOMAIN cert_replies}

\* the parsed reply of the resume model: no object, an object without certificates,
\* and one with each certificate list
CertRecords ==
    {PyList(<<>>), EmptyDict} \cup {PyDict("certificates" :> c) : c \in CertLists}

\* a call of evaluate_certificates, or process_resume_file at its certificate step
InitCerts ==
    /\ \/ /\ op = "evaluate_certificates"
          /\ args \in [cert_list : CertLists, openrouter_client : BOOLEAN, response : CertResponses]
       \/ /\ op = "process_resume_file:certificates"
          /\ args \in [data : CertRecords, response : CertResponses]
    /\ pc = "call"
    /\ ret = <<>>
    /\ locals = <<>>

EvaluateCertificates ==
    /\ pc = "call"
    /\ op = "evaluate_certificates"
    /\ ret' = evaluate_certificates(args.cert_list, args.openrouter_client, args.response)
    /\ pc' = "done"
    /\ UNCHANGED <<op, args, locals>>

ProcessResumeCertificates ==
    /\ pc = "call"
    /\ op = "process_resume_file:certificates"
    /\ ret' = process_resume_certificates(args.data, args.response)
    /\ pc' = "done"
    /\ UNCHANGED <<op, args, locals>>

NextCerts == EvaluateCertificates \/ ProcessResumeCertificates

SpecCerts == InitCerts /\ [][NextCerts]_vars

(***************************************************************************)
(* The requests to the account endpoints that are explored: emails that    *)
(* differ in letter case only, one that is no valid pattern, two           *)
(* passwords, and a collection that starts empty or with one account whose *)
(* password is stored in plain text.                                       *)
(***************************************************************************)
Emails == {<<"a","@","x",".","i","o">>, <<"A","@","x",".","i","o">>, <<"+","@","x",".","i","o">>, <<"o","@","x",".","i","o">>}

Passwords == {<<"p","w","1">>, <<"p","w","2">>}

Roles == {PyNone, PyStr(<<"A","d","m","i","n">>)}

LegacyUser ==
    PyDict(("_id" :> ObjectId(1)) @@ ("email" :> PyStr(<<"o","@","x",".","i","o">>)) @@ ("password" :> PyStr(<<"p","w","1">>)) @@ ("role" :> PyStr(<<"u","s","e","r">>)))

\* the server is up, no request served yet
InitAuth ==
    /\ op = "none"
    /\ args = <<>>
    /\ pc = "listening"
    /\ ret = PyNone
    /\ \E coll \in {<<>>, <<LegacyUser>>} : locals = [users |-> coll, portfolio |-> <<>>]

\* POST /register
Register ==
    \E email \in Emails, password \in Passwords, role \in Roles :
        LET new_user == [email |-> email, password |-> password, role |-> role]
            r == register_user(locals.users, new_user)
        IN /\ op' = "register_user"
           /\ args' = new_user
           /\ ret' = r.ret
           /\ locals' = [locals EXCEPT !.users = r.users]
           /\ pc' = "responded"

\* POST /set_password
SetPassword ==
    \E email \in Emails, password \in Passwords, role \in Roles :
        LET payload == [email |-> email, password |-> password, role |-> role]
            r == set_password(locals.users, payload)
        IN /\ op' = "set_password"
           /\ args' = payload
           /\ ret' = r.ret
           /\ locals' = [locals EXCEPT !.users = r.users]
           /\ pc' = "responded"

\* POST /login
Login ==
    \E email \in Emails, password \in Passwords :
        LET user == [email |-> email, password |-> password]
        IN /\ op' = "login_user"
           /\ args' = user
           /\ ret' = login_user(locals.users, user)
           /\ pc' = "responded"
           /\ UNCHANGED locals

NextAuth == Register \/ SetPassword \/ Login

SpecAuth == InitAuth /\ [][NextAuth]_vars


(***************************************************************************)
(* The requests that are explored for the users collection: emails that    *)
(* differ in letter case only, one with a "+", the user "yuva"; an upload  *)
(* with or without a file, processed or not, with or without a reply of    *)
(* the AI service.                                                         *)
(***************************************************************************)
UserEmails == {<<"a","@","x",".","i","o">>, <<"A","@","x",".","i","o">>, <<"a","+","b","@","x",".","i","o">>}

\* the emails a portfolio is asked for
PortfolioEmails == UserEmails \cup {<<"y","u","v","a">>}

\* the most requests served in one run
MaxRequests == 3

Files == {PyNone, PyDict("filename" :> PyStr(<<"c","v",".","p","d","f">>))}

\* what process_resume_file returns: a processed resume, or an error
ProcessResults ==
    {PyDict(("data" :> PyDict(("name" :> PyStr(<<"A","l">>)) @@ ("skills" :> PyDict(("technical" :> PyList(<<PyStr(<<"P","y","t","h","o","n">>), PyStr(<<"S","Q","L">>)>>)))) @@ ("projects" :> PyList(<<PyDict(("title" :> PyStr(<<"S","h","o","p">>)))>>)))) @@ ("ats_score" :> PyInt(70)) @@ ("word_count" :> PyInt(120))),
     PyDict(("error" :> PyStr(<<"U","n","s","u","p","p","o","r","t","e","d"," ","f","i","l","e"," ","f","o","r","m","a","t">>)))}

AiTexts == {PyNone, PyStr(<<"R","o","l","e",":"," ","D","a","t","a"," ","A","n","a","l","y","s","t","\n","M","i","s","s","i","n","g"," ","S","k","i","l","l","s",":"," ","S","Q","L",","," ","E","x","c","e","l">>)}

\* the server is up with an empty database, no request served yet
InitUsers ==
    /\ op = "none"
    /\ args = <<>>
    /\ pc = 0
    /\ ret = PyNone
    /\ locals = [users |-> <<>>, portfolio |-> <<>>]

\* POST /register with any email
RegisterEmail ==
    \E email \in UserEmails :
        LET new_user == [email |-> email, password |-> <<"p","w","1">>, role |-> PyStr(<<"u","s","e","r">>)]
            r == register_user(locals.users, new_user)
        IN /\ pc < MaxRequests
           /\ op' = "register_user"
           /\ args' = new_user
           /\ ret' = r.ret
           /\ locals' = [locals EXCEPT !.users = r.users]
           /\ pc' = pc + 1

\* POST /set_password with any email
SetPasswordEmail ==
    \E email \in UserEmails :
        LET payload == [email |-> email, password |-> <<"p","w","2">>, role |-> PyNone]
            r == set_password(locals.users, payload)
        IN /\ pc < MaxRequests
           /\ op' = "set_password"
           /\ args' = payload
           /\ ret' = r.ret
           /\ locals' = [locals EXCEPT !.users = r.users]
           /\ pc' = pc + 1

\* POST /upload_resume
UploadResume ==
    \E email \in UserEmails, file \in Files, result \in ProcessResults, ai_text \in AiTexts :
        LET r == upload_resume(locals.users, email, file, result, ai_text)
        IN /\ pc < MaxRequests
           /\ op' = "upload_resume"
           /\ args' = [email |-> email, file |-> file]
           /\ ret' = r.ret
           /\ locals' = [locals EXCEPT !.users = r.users]
           /\ pc' = pc + 1

\* POST /portfolio
GeneratePortfolio ==
    \E email \in PortfolioEmails :
        LET r == generate_portfolio(locals.users, locals.portfolio, email)
        IN /\ pc < MaxRequests
           /\ op' = "generate_portfolio"
           /\ args' = [email |-> email]
           /\ ret' = r.ret
           /\ locals' = [users |-> r.users, portfolio |-> r.portfolio]
           /\ pc' = pc + 1

NextUsers == RegisterEmail \/ SetPasswordEmail \/ UploadResume \/ GeneratePortfolio

SpecUsers == InitUsers /\ [][NextUsers]_vars


(***************************************************************************)
(* The calls of calculate_ats_score that are explored for the achievement  *)
(* entry: prose of metric mentions of each form, an action verb and a word *)
(* that only ends in one, separated by a space, a comma or a full stop.    *)
(***************************************************************************)
metric_pieces ==
    << <<"5","0","%">>, <<"$","5","0","0">>, <<"1","2"," ","u","s","e","r","s">>, <<"3"," ","x">>, <<"5"," ","t","i","m","e","s">>, <<"2"," ","y","e","a","r","s">>, <<"l","e","d">>, <<"m","i","s","l","e","d">> >>

prose_delimiters == << <<" ">>, <<","," ">>, <<"."," ">> >>

MaxMetricPieces == 3

\* the pieces p[1], p[2], ... each followed by the delimiter, the last one by
\* nothing (end of text) or by the delimiter without its space
ProseTexts ==
    {Concat([i \in DOMAIN p |-> metric_pieces[p[i]] \o (IF i < Len(p) THEN prose_delimiters[d] ELSE <<>>)]) \o last :
        p \in SeqsUpTo(Len(metric_pieces), MaxMetricPieces) \ {<<>>}, d \in DOMAIN prose_delimiters,
        last \in {<<>>, <<".">>}}

\* a call of calculate_ats_score on a prose text is pending
InitMetrics ==
    /\ op = "calculate_ats_score"
    /\ args \in {[data |-> RecordWith(4), text |-> PyStr(s)] : s \in ProseTexts}
    /\ pc = "call"
    /\ ret = <<>>
    /\ locals = <<>>

SpecMetrics == InitMetrics /\ [][NextAts]_vars


(***************************************************************************)
(* The calls of process_resume_file that are explored                      *)
(***************************************************************************)
\* the content of a reply of the model to the extraction prompt
resume_replies ==
    << <<"{","\"","n","a","m","e","\"",":"," ","\"","A","l","\"",","," ","\"","s","k","i","l","l","s","\"",":"," ","{","\"","t","e","c","h","n","i","c","a","l","\"",":"," ","[","\"","P","y","t","h","o","n","\"",","," ","\"","p","y","t","h","o","n"," ","\"",","," ","\"","A","I","\"",","," ","\"","A","W","S","\"",","," ","\"","S","Q","L","\"","]",","," ","\"","s","o","f","t","\"",":"," ","[","\"","T","e","a","m","w","o","r","k","\"","]",","," ","\"","a","r","e","a","_","o","f","_","i","n","t","e","r","e","s","t","\"",":"," ","[","\"","A","I","\"","]","}",","," ","\"","c","e","r","t","i","f","i","c","a","t","e","s","\"",":"," ","[","\"","A","W","S"," ","C","l","o","u","d"," ","P","r","a","c","t","i","t","i","o","n","e","r","\"","]",","," ","\"","p","r","o","j","e","c","t","s","\"",":"," ","[","\"","C","h","a","t"," ","a","p","p","\"","]",","," ","\"","l","a","n","g","u","a","g","e","s","\"",":"," ","[","\"","E","n","g","l","i","s","h","\"","]",","," ","\"","e","d","u","c","a","t","i","o","n","\"",":"," ","{","\"","b","a","c","h","e","l","o","r","\"",":"," ","{","\"","d","e","g","r","e","e","\"",":"," ","\"","B","E","\"","}","}",","," ","\"","e","x","p","e","r","i","e","n","c","e","\"",":"," ","[","\"","I","n","t","e","r","n","\"","]","}">>, <<"{","\"","s","k","i","l","l","s","\"",":"," ","{","\"","t","e","c","h","n","i","c","a","l","\"",":"," ","[","]",","," ","\"","s","o","f","t","\"",":"," ","[","]",","," ","\"","a","r","e","a","_","o","f","_","i","n","t","e","r","e","s","t","\"",":"," ","[","]","}",","," ","\"","e","d","u","c","a","t","i","o","n","\"",":"," ","{","}",","," ","\"","p","r","o","j","e","c","t","s","\"",":"," ","[","]",","," ","\"","l","a","n","g","u","a","g","e","s","\"",":"," ","[","]","}">>, <<"{","}">>, <<"BACKTICK","BACKTICK","BACKTICK","j","s","o","n","\n","{","\"","s","k","i","l","l","s","\"",":"," ","{","\"","t","e","c","h","n","i","c","a","l","\"",":"," ","[","\"","G","o","\"","]","}",","," ","\"","e","d","u","c","a","t","i","o","n","\"",":"," ","{","\"","1","0","t","h","\"",":"," ","{","\"","s","c","h","o","o","l","\"",":"," ","\"","\"","}","}","}","\n","BACKTICK","BACKTICK","BACKTICK">>, <<"S","o","r","r","y",","," ","I"," ","f","o","u","n","d"," ","n","o"," ","r","e","s","u","m","e",".">>, <<"[","1","]">>, <<"{","\"","s","k","i","l","l","s","\"",":"," ","{","\"","t","e","c","h","n","i","c","a","l","\"",":"," ","[","\"","G","o","\"","]","}",","," ","\"","l","a","n","g","u","a","g","e","s","\"",":"," ","5","}">>, <<"{","\"","c","e","r","t","i","f","i","c","a","t","e","s","\"",":"," ","7","}">>, <<"{","\"","p","r","o","j","e","c","t","s","\"",":"," ","3","}">>, <<"{","\"","s","k","i","l","l","s","\"",":"," ","[","\"","P","y","t","h","o","n","\"","]","}">>, <<"{","\"","s","k","i","l","l","s","\"",":"," ","{","\"","t","e","c","h","n","i","c","a","l","\"",":"," ","\"","P","y","t","h","o","n",","," ","J","a","v","a",";"," ","p","y","t","h","o","n","/","G","o","\"",","," ","\"","a","r","e","a","_","o","f","_","i","n","t","e","r","e","s","t","\"",":"," ","\"","J","a","v","a","\"","}",","," ","\"","c","e","r","t","i","f","i","c","a","t","e","s","\"",":"," ","\"","G","o","\"",","," ","\"","l","a","n","g","u","a","g","e","s","\"",":"," ","\"","E","n","g","l","i","s","h"," ","a","n","d"," ","T","a","m","i","l","\"","}">> >>

\* the text of a page of an uploaded resume
resume_page == <<"L","e","d"," ","a"," ","t","e","a","m","\n","-"," ","B","u","i","l","t"," ","a","n"," ","a","p","p"," ","f","o","r"," ","1","2"," ","u","s","e","r","s","\n","P","y","t","h","o","n",","," ","S","Q","L"," ","a","@","b",".","c","o">>

\* what upload_file.read() does and the PDF it gives: read raises or gives no
\* bytes; the bytes are no PDF; a PDF without pages, with pages without text, with text
Uploads ==
    {[filename |-> <<"c","v",".","p","d","f">>, read |-> r, pdf |-> UnreadablePdf] : r \in {"raises", "empty", "bytes"}}
    \cup {[filename |-> <<"c","v",".","p","d","f">>, read |-> "bytes", pdf |-> PdfWithPages(pages)] :
            pages \in {<<>>, <<PyNone>>, <<PyStr(<<" ","\n">>), PyNone>>, <<PyStr(resume_page)>>,
                       <<PyNone, PyStr(resume_page)>>}}

\* what chat.completions.create does for the extraction prompt
ModelResponses ==
    {ApiError, Completion(<<>>), Completion(<<[content |-> PyNone]>>)}
    \cup {Completion(<<[content |-> PyStr(resume_replies[k])]>>) : k \in DOMAIN resume_replies}

\* what chat.completions.create does for the certificate prompt
CertificateResponses ==
    {ApiError,
     Completion(<<[content |-> PyStr(<<"[","{","\"","c","e","r","t","i","f","i","c","a","t","e","\"",":"," ","\"","A","W","S"," ","C","l","o","u","d"," ","P","r","a","c","t","i","t","i","o","n","e","r","\"",","," ","\"","w","o","r","t","h","i","n","e","s","s","_","s","c","o","r","e","\"",":"," ","8","0",","," ","\"","h","i","g","h","l","i","g","h","t","\"",":"," ","t","r","u","e",","," ","\"","r","e","a","s","o","n","\"",":"," ","\"","k","n","o","w","n","\"","}","]">>)]>>)}

\* what evaluate_projects makes of the model's reply to the project prompt
ProjectResults == {PyList(<<>>), PyList(<<PyDict("project_title" :> PyStr(<<"C","h","a","t"," ","a","p","p">>))>>)}

\* the db of config.py: None, a database that cannot be reached, a database
Databases == {"none", "down", "up"}

ProcessCalls ==
    [upload_file : Uploads, openrouter_client : BOOLEAN, response : ModelResponses,
     certificate_response : CertificateResponses, project_results : ProjectResults, db : Databases]

\* a call of process_resume_file has started; db.reports is empty
InitProcess ==
    /\ op = "process_resume_file"
    /\ args \in ProcessCalls
    /\ pc = "read"
    /\ ret = PyNone
    /\ locals = locals_at_entry(<<>>)

\* the handler takes the step st
Advance(st) ==
    /\ pc' = st.pc
    /\ ret' = st.ret
    /\ locals' = st.locals
    /\ UNCHANGED <<op, args>>

\* lines 590-592
ReadUpload == op = "process_resume_file" /\ pc = "read" /\ Advance(read_step(args, locals))

\* lines 594-601
ExtractText == op = "process_resume_file" /\ pc = "text" /\ Advance(text_step(args, locals))

\* lines 667-689
CallModel == op = "process_resume_file" /\ pc = "model" /\ Advance(model_step(args, locals))

\* lines 692-696
CertificateAnalysis == op = "process_resume_file" /\ pc = "certificates" /\ Advance(certificate_step(args, locals))

\* lines 699-706
ProjectAnalysis == op = "process_resume_file" /\ pc = "projects" /\ Advance(project_step(args, locals))

\* lines 708-774
ScoreResume == op = "process_resume_file" /\ pc = "score" /\ Advance(score_step(args, locals))

\* lines 777-795
SaveReport == op = "process_resume_file" /\ pc = "save" /\ Advance(save_step(args, locals))

NextProcess ==
    ReadUpload \/ ExtractText \/ CallModel \/ CertificateAnalysis \/ ProjectAnalysis \/ ScoreResume \/ SaveReport

SpecProcess == InitProcess /\ [][NextProcess]_vars


(***************************************************************************)
(* The records whose skills are cleaned                                    *)
(***************************************************************************)
\* entries of the technical skills of a reply
technical_entries ==
    << PyStr(<<"P","y","t","h","o","n">>), PyStr(<<"P","Y","T","H","O","N"," ">>), PyStr(<<"A","I">>), PyStr(<<"A","W","S">>), PyStr(<<"A","w","s"," ","C","l","o","u","d">>),
       PyStr(<<"G","o"," ","l","a","n","g">>), PyInt(5) >>

MaxTechnical == 3

\* the technical skills: a list of at most MaxTechnical entries, or one str
TechnicalValues ==
    {PyList([i \in DOMAIN s |-> technical_entries[s[i]]]) : s \in SeqsUpTo(Len(technical_entries), MaxTechnical)}
    \cup {PyStr(<<"P","y","t","h","o","n",","," ","S","Q","L",";","p","y","t","h","o","n"," ","/"," ","G","o"," ","l","a","n","g",",">>), PyStr(<<"A","W","S">>)}

InterestValues ==
    {PyList(<<>>), PyList(<<PyStr(<<"a","i">>)>>), PyList(<<PyStr(<<"G","o"," ","L","a","n","g"," ">>), PyStr(<<"5">>)>>),
     PyStr(<<"A","I",";"," ","p","y","t","h","o","n">>)}

CertificateValues ==
    {PyList(<<>>), PyList(<<PyStr(<<"A","W","S"," ","C","l","o","u","d"," ","P","r","a","c","t","i","t","i","o","n","e","r">>)>>), PyList(<<PyStr(<<"g","o">>)>>),
     PyList(<<PyStr(<<" ","a","w","s">>), PyStr(<<"P","y","t","h","o","n"," ","3">>)>>), PyStr(<<"A","W","S"," ","C","l","o","u","d">>)}

SkillRecords ==
    {PyDict(("skills" :> PyDict(("technical" :> tech) @@ ("soft" :> PyList(<<>>)) @@ ("area_of_interest" :> aoi)))
            @@ ("certificates" :> certs)) :
        tech \in TechnicalValues, aoi \in InterestValues, certs \in CertificateValues}

\* process_resume_file is at line 708, the reply parsed into a record
InitCleanup ==
    /\ op = "process_resume_file:skills"
    /\ args \in SkillRecords
    /\ pc = "call"
    /\ ret = <<>>
    /\ locals = <<>>

\* lines 708-760
CleanTechnicalSkills ==
    /\ pc = "call"
    /\ op = "process_resume_file:skills"
    /\ ret' = skills_step(args)
    /\ pc' = "done"
    /\ UNCHANGED <<op, args, locals>>

NextCleanup == CleanTechnicalSkills

SpecCleanup == InitCleanup /\ [][NextCleanup]_vars


(***************************************************************************)
(* The requests to the resume filter stream that are explored              *)
(***************************************************************************)
\* what process_resume_file returns for an upload: an error, or the data and score
parsed_results ==
    << ErrorMapping(<<"N","o"," ","r","e","a","d","a","b","l","e"," ","t","e","x","t"," ","f","o","u","n","d"," ","i","n"," ","t","h","e"," ","u","p","l","o","a","d","e","d"," ","P","D","F",".">>),
       PyDict(("data" :> PyDict(("name" :> PyStr(<<"A","l">>)) @@ ("email" :> PyStr(<<"a","l","@","x",".","i","o">>))
                                @@ ("education" :> PyDict(("10th" :> PyDict("percentage" :> PyStr(<<"9","2",".","6","%">>)))
                                                          @@ ("12th" :> PyDict("percentage" :> PyStr(<<" ","8","8"," ">>)))
                                                          @@ ("bachelor" :> PyDict(("degree" :> PyStr(<<"B",".","E","."," ","C","S","E">>))
                                                                                   @@ ("cgpa" :> PyStr(<<"8",".","3","2"," ","(","u","p","t","o"," ","5","t","h"," ","s","e","m","e","s","t","e","r",")">>))))))
                                @@ ("skills" :> PyDict(("technical" :> PyList(<<PyStr(<<"J","a","v","a"," ","|"," ","O","O","P","S"," ","|","P","y","t","h","o","n">>), PyStr(<<"P","y","t","h","o","n">>)>>))
                                                       @@ ("area_of_interest" :> PyList(<<PyStr(<<"A","I"," ">>)>>))))
                                @@ ("languages" :> PyList(<<PyStr(<<"E","n","g","l","i","s","h">>)>>))))
              @@ ("ats_score" :> 61500) @@ ("ats_breakdown" :> <<>>) @@ ("word_count" :> 300)),
       PyDict(("data" :> PyDict(("name" :> PyStr(<<"B","o">>))
                                @@ ("education" :> PyDict("bachelor" :> PyDict(("degree" :> PyStr(<<"B","S","c">>)) @@ ("cgpa" :> PyInt(7)))))
                                @@ ("skills" :> PyDict(("technical" :> PyList(<<PyStr(<<"S","Q","L">>)>>))))
                                @@ ("languages" :> PyList(<<>>))))
              @@ ("ats_score" :> 40000) @@ ("ats_breakdown" :> <<>>) @@ ("word_count" :> 120)),
       PyDict(("data" :> PyDict(("name" :> PyStr(<<"C","y">>))
                                @@ ("education" :> PyDict("10th" :> PyNone))
                                @@ ("skills" :> PyDict(("technical" :> PyList(<<>>))))
                                @@ ("languages" :> PyList(<<>>))))
              @@ ("ats_score" :> 55000) @@ ("ats_breakdown" :> <<>>) @@ ("word_count" :> 200)) >>

file_names == << <<"f","1",".","p","d","f">>, <<"f","2",".","p","d","f">>, <<"f","3",".","p","d","f">>, <<"f","4",".","p","d","f">> >>

\* what becomes of an upload: read raises, gives no bytes, or gives bytes that
\* process_resume_file turns into one of the results
FileKinds ==
    {[read |-> r, parsed |-> PyNone] : r \in {"raises", "empty"}}
    \cup {[read |-> "bytes", parsed |-> parsed_results[k]] : k \in DOMAIN parsed_results}

MaxFiles == 3

\* the uploads of a request, named by their place
FileLists ==
    UNION {{[i \in 1..n |-> [filename |-> file_names[i], read |-> kinds[i].read, parsed |-> kinds[i].parsed]] :
              kinds \in [1..n -> FileKinds]} : n \in 0..MaxFiles}

no_filters ==
    [cgpa |-> PyNone, cgpa_max |-> PyNone, tenth |-> PyNone, tenth_max |-> PyNone, twelfth |-> PyNone,
     twelfth_max |-> PyNone, ats |-> PyNone, skills |-> PyNone, language |-> PyNone, department |-> PyNone,
     degree |-> PyNone, area_of_interest |-> PyNone]

\* the form fields of a request, numbers in thousandths
FilterForms ==
    {no_filters,
     [no_filters EXCEPT !.cgpa = PyInt(8000), !.cgpa_max = PyInt(10000)],
     [no_filters EXCEPT !.skills = PyStr(<<"p","y","t","h","o","n",","," ","j","a","v","a">>), !.language = PyStr(<<"e","n","g","l","i","s","h">>)],
     [no_filters EXCEPT !.ats = PyInt(50000), !.degree = PyStr(<<" ","B",".","E">>), !.department = PyStr(<<"C","S","E">>),
                        !.area_of_interest = PyStr(<<"m","l",",","a","i">>), !.tenth = PyInt(60000), !.tenth_max = PyInt(95000),
                        !.twelfth = PyInt(80000), !.twelfth_max = PyInt(100000)],
     [no_filters EXCEPT !.ats = PyInt(45000)]}

\* lines 78-92: the filters are computed; the response starts to be read, nothing
\* is sent yet
InitStream ==
    /\ op = "filter_uploaded_resumes_stream"
    /\ args \in [files : FileLists, form : FilterForms]
    /\ pc = "loop"
    /\ ret = PyNone
    /\ locals = [filters |-> request_filters(args.form), total_files |-> Len(args.files),
                 i |-> 1, results |-> <<>>, processed_count |-> 0, events |-> <<>>]

\* lines 94-207: the loop handles the next file
HandleFile ==
    /\ op = "filter_uploaded_resumes_stream" /\ pc = "loop"
    /\ locals.i <= Len(args.files)
    /\ locals' = handle_file(args, locals)
    /\ UNCHANGED <<op, args, pc, ret>>

\* lines 209-211: the final event, after the last file
FinalEvent ==
    /\ op = "filter_uploaded_resumes_stream" /\ pc = "loop"
    /\ locals.i > Len(args.files)
    /\ locals' = [locals EXCEPT !.events = Append(@, final_payload(locals.results))]
    /\ pc' = "done"
    /\ UNCHANGED <<op, args, ret>>

NextStream == HandleFile \/ FinalEvent

\* the response is read to its end: the generator is resumed until it returns
SpecStream == InitStream /\ [][NextStream]_vars /\ WF_vars(NextStream)


(***************************************************************************)
(* Claims about calculate_ats_score, checked under SpecAts                 *)
(***************************************************************************)
\* a call of calculate_ats_score has returned (it did not raise)
AtsReturned == op = "calculate_ats_score" /\ pc = "done" /\ ~ret.raised

CategoryNames ==
    { "Section Coverage", "Contact Info", "Word Count", "Bullet Points",
      "Action + Achievements", "Skills Strength", "Soft Skills & Certs", "Formatting Penalty" }

\* the eight category entries of a breakdown, added one by one
CategorySum(b) ==
    b["Section Coverage"] + b["Contact Info"] + b["Word Count"] + b["Bullet Points"]
    + b["Action + Achievements"] + b["Skills Strength"] + b["Soft Skills & Certs"]
    + b["Formatting Penalty"]

\* C1: whenever calculate_ats_score returns, the 'Total ATS Score' entry and the
\* returned ats_score lie in the closed range [0, 100].
C1_TotalInRange ==
    AtsReturned =>
        /\ 0 <= ret.val.ats_breakdown["Total ATS Score"]
        /\ ret.val.ats_breakdown["Total ATS Score"] <= Points(100)
        /\ 0 <= ret.val.ats_score
        /\ ret.val.ats_score <= Points(100)

\* C1 witness: a call whose categories add up to less than 0 (only the formatting
\* penalty applies) has returned the total 0.
C1_Witness ==
    /\ AtsReturned
    /\ CategorySum(ret.val.ats_breakdown) < 0
    /\ ret.val.ats_score = 0

\* C2: whenever calculate_ats_score returns, every category entry lies in its
\* tabulated range.
C2_CategoriesInRange ==
    AtsReturned =>
        LET b == ret.val.ats_breakdown IN
        /\ 0 <= b["Section Coverage"] /\ b["Section Coverage"] <= Points(20)
        /\ 0 <= b["Contact Info"] /\ b["Contact Info"] <= Points(10)
        /\ 0 <= b["Word Count"] /\ b["Word Count"] <= Points(5)
        /\ 0 <= b["Bullet Points"] /\ b["Bullet Points"] <= Points(10)
        /\ 0 <= b["Action + Achievements"] /\ b["Action + Achievements"] <= Points(20)
        /\ 0 <= b["Skills Strength"] /\ b["Skills Strength"] <= Points(30)
        /\ 0 <= b["Soft Skills & Certs"] /\ b["Soft Skills & Certs"] <= Points(5)
        /\ 0 - Points(5) <= b["Formatting Penalty"] /\ b["Formatting Penalty"] <= 0

\* C2 witness: a call in which the uncapped action, skill, soft-skill and
\* certification counts all exceed their caps, and both penalties apply.
C2_Witness ==
    /\ AtsReturned
    /\ locals.action_count + 2 * locals.metric_count > 20
    /\ 3 * locals.tech_match + 2 * locals.tools_match > 60
    /\ locals.soft_hits > 2
    /\ locals.cert_hits > 3
    /\ locals.penalty = 3
    /\ locals.bullet_count > 10

\* C3: whenever calculate_ats_score returns, 'Total ATS Score' is the sum of the
\* eight category entries, clamped to [0, 100] and rounded to 2 decimals (a
\* multiple of 0.01 at most 0.005 away), and ats_score is that entry.
C3_TotalIsClampedSum ==
    AtsReturned =>
        LET b == ret.val.ats_breakdown
            sum == CategorySum(b)
            clamped == IF sum > Points(100) THEN Points(100) ELSE IF sum < 0 THEN 0 ELSE sum
            total == b["Total ATS Score"]
        IN /\ DOMAIN b = CategoryNames \cup {"Total ATS Score"}
           /\ total % 10 = 0
           /\ total - clamped <= 5
           /\ clamped - total <= 5
           /\ ret.val.ats_score = total

\* C3 witness: a returned call with a fractional skill score, a penalty and a
\* positive total.
C3_Witness ==
    /\ AtsReturned
    /\ ret.val.ats_breakdown["Skills Strength"] % 1000 = 500
    /\ ret.val.ats_breakdown["Formatting Penalty"] < 0
    /\ ret.val.ats_score > 0

\* the preconditions of the worked example of spec.md section 8
C4_Case ==
    /\ AtsReturned
    /\ \A k \in DOMAIN required_sections : Truthy(DictGet(args.data, required_sections[k]))
    /\ locals.email
    /\ Contains(Lower(args.text.v), <<"g","i","t","h","u","b",".","c","o","m">>)
    /\ locals.word_count = 600
    /\ locals.bullet_count = 12
    /\ locals.action_count = 5
    /\ locals.metric_count = 2
    /\ locals.tech_match = 10
    /\ locals.tools_match = 3
    /\ locals.soft_hits = 1
    /\ locals.cert_hits = 1
    /\ locals.penalty = 0

\* C4: a document with all four sections, an e-mail and a github.com URL, 600
\* words, 12 bullets, 5 action verbs, 2 metrics, 10 technical and 3 tool keywords,
\* 1 soft skill, 1 certification word and no penalty scores 20, 10, 5, 10, 9, 18,
\* 2, 0 and the total 74.00.
C4_WorkedExample ==
    C4_Case =>
        /\ ret.val.ats_breakdown =
              ("Section Coverage" :> 20000) @@ ("Contact Info" :> 10000)
              @@ ("Word Count" :> 5000) @@ ("Bullet Points" :> 10000)
              @@ ("Action + Achievements" :> 9000) @@ ("Skills Strength" :> 18000)
              @@ ("Soft Skills & Certs" :> 2000) @@ ("Formatting Penalty" :> 0)
              @@ ("Total ATS Score" :> 74000)
        /\ ret.val.ats_score = 74000

\* C4 witness: the worked example has been scored.
C4_Witness == C4_Case

\* C5 (as claimed): calculate_ats_score raises for no input, and for absent or empty
\* text with no section present every category and the total are 0.
C5_TotalFunction ==
    (op = "calculate_ats_score" /\ pc = "done") =>
        /\ ~ret.raised
        /\ ( /\ ~Truthy(args.text)
             /\ \A k \in DOMAIN required_sections :
                    ~Truthy(DictGet(args.data, required_sections[k])) )
           => \A name \in DOMAIN ret.val.ats_breakdown : ret.val.ats_breakdown[name] = 0

(***************************************************************************)
(* Claims about normalize_languages, checked under SpecLang                *)
(***************************************************************************)
\* a call of normalize_languages has returned (it did not raise)
LangReturned == op = "normalize_languages" /\ pc = "done" /\ ~ret.raised

\* the text the pattern is matched against: a list is joined with single spaces
LangInputText == IF args.t = "list" THEN JoinTruthy(args.v) ELSE args.v

\* entry e is a capitalized language name followed by " (" X ")", where X is
\* non-empty and holds no whitespace, no lower-case letter and no ")"
IsNameAndProficiency(e) ==
    \E k \in DOMAIN language_patterns :
        LET n == Len(language_patterns[k]) IN
        /\ Len(e) >= n + 4
        /\ SubSeq(e, 1, n) = Capitalize(language_patterns[k])
        /\ e[n + 1] = " "
        /\ e[n + 2] = "("
        /\ e[Len(e)] = ")"
        /\ \A i \in (n + 3)..(Len(e) - 1) :
              ~IsSpace(e[i]) /\ e[i] \notin LowerSet /\ e[i] # ")"

IsName(e) == \E k \in DOMAIN language_patterns : e = Capitalize(language_patterns[k])

Renderings ==
    LET m == LanguageFindAll(Lower(LangInputText))
    IN [k \in DOMAIN m |-> RenderLanguage(m[k].lang, m[k].prof)]

\* the index of the first occurrence of e in the sequence r
FirstIndex(r, e) == Min({k \in DOMAIN r : r[k] = e})

\* C7: the returned sequence has no two equal entries, holds exactly the renderings
\* found in the input (a list joined with single spaces), and lists them in the
\* order of their first occurrence.
C7_NoDuplicatesFirstOccurrence ==
    (LangReturned /\ Truthy(args)) =>
        /\ \A i, j \in DOMAIN ret.val : i # j => ret.val[i] # ret.val[j]
        /\ Range(ret.val) = Range(Renderings)
        /\ \A i, j \in DOMAIN ret.val :
              i < j => FirstIndex(Renderings, ret.val[i]) < FirstIndex(Renderings, ret.val[j])

\* C7 witness: a later identical rendering was dropped and a different rendering of
\* the same language was kept.
C7_Witness ==
    /\ LangReturned
    /\ Truthy(args)
    /\ Len(Renderings) > Len(ret.val)
    /\ \E i, j \in DOMAIN ret.val :
          /\ i < j
          /\ ret.val[i] = <<"E","n","g","l","i","s","h"," ","(","F","L","U","E","N","T",")">>
          /\ ret.val[j] = <<"E","n","g","l","i","s","h">>

\* C10 (as claimed): falsy input yields the empty sequence, and a language list with
\* non-string entries never makes normalize_languages or a language step raise
\* or report a failure.
C10_LanguagesTotal ==
    pc = "done" =>
        /\ (op = "normalize_languages" /\ ~Truthy(args)) => ret = Return(<<>>)
        /\ (op = "normalize_languages" /\ args.t = "list") => ~ret.raised
        /\ ( /\ op \in {"process_resume_file:languages", "extract_resume_data:languages"}
             /\ DictGet(args, "languages").t = "list" )
           => (~ret.raised /\ "error" \notin DOMAIN ret.val)

\* the language an entry names: the entry up to its first space, lowercased
EntryName(e) ==
    LET spaces == {i \in DOMAIN e : e[i] = " "}
    IN Lower(IF spaces = {} THEN e ELSE SubSeq(e, 1, Min(spaces) - 1))

\* w occurs in s as a whole word, letter case ignored
WholeWordIn(w, s) ==
    \E i \in 1..(Len(s) - Len(w) + 1) :
        /\ MatchAt(Lower(s), i, w)
        /\ i = 1 \/ ~IsWordChar(s[i - 1])
        /\ i + Len(w) > Len(s) \/ ~IsWordChar(s[i + Len(w)])

\* w occurs as a whole word in the value x: in the str, or in an entry of the list
RECURSIVE NamedIn(_, _)
NamedIn(w, x) ==
    CASE x.t = "str" -> WholeWordIn(w, x.v)
      [] x.t = "list" -> \E k \in DOMAIN x.v : NamedIn(w, x.v[k])
      [] OTHER -> FALSE

\* a language step has stored its languages (it did not end in an error)
LanguagesStored ==
    /\ op \in {"process_resume_file:languages", "extract_resume_data:languages"}
    /\ pc = "done"
    /\ ~ret.raised
    /\ "languages" \in DOMAIN ret.val

\* C11: every entry returned by normalize_languages names one of the 16 languages
\* and that name is a whole word of the input; the languages a language step stores
\* are named as whole words in the "languages" field, and none is stored when the
\* field is empty or absent.
C11_OnlyLanguagesPresent ==
    /\ LangReturned =>
          \A k \in DOMAIN ret.val :
              /\ EntryName(ret.val[k]) \in Range(language_patterns)
              /\ NamedIn(EntryName(ret.val[k]), args)
    /\ LanguagesStored =>
          /\ \A k \in DOMAIN ret.val.languages :
                /\ EntryName(ret.val.languages[k]) \in Range(language_patterns)
                /\ NamedIn(EntryName(ret.val.languages[k]), DictGet(args, "languages"))
          /\ ( \/ "languages" \notin DOMAIN args.v
               \/ args.v["languages"] \in {PyStr(<<>>), PyList(<<>>)} )
             => ret.val.languages = <<>>

\* C11 witness: a step has stored languages split from a separated string that
\* also holds other words.
C11_Witness ==
    /\ LanguagesStored
    /\ DictGet(args, "languages").t = "str"
    /\ Len(ret.val.languages) >= 5

(***************************************************************************)
(* Claims about strict-mode extraction, checked under SpecStrict           *)
(***************************************************************************)
\* a call of extract_resume_details has ended
StrictDone == op = "extract_resume_details" /\ pc = "done"

\* C8 (as claimed): when the text holds no technical-skill heading, a call that
\* returns has technical_skills = "not found", whatever the model replied; likewise
\* areas_of_interest is "not found" when the text holds no area-of-interest heading.
C8_NotFoundWithoutHeading ==
    (StrictDone /\ ~ret.raised) =>
        /\ ~locals.found_skill_heading => ret.val.v.technical_skills = NotFound
        /\ ~locals.found_interest_heading => ret.val.v.areas_of_interest = NotFound

(***************************************************************************)
(* Claims about extract_technical_skills, checked under SpecSkills         *)
(***************************************************************************)
\* a call of extract_technical_skills has returned
SkillsReturned == op = "extract_technical_skills" /\ pc = "done" /\ ~ret.raised

\* the items of a document, normalized, capitalized and sorted
ListedSkills(d) ==
    Sorted({Capitalize(normalize_skill(skill_items[d.items[k]])) : k \in DOMAIN d.items})

\* C9 (as claimed): for a heading line, a delimiter-separated list and a later
\* section, the result is exactly the listed items (normalized, capitalized,
\* sorted), without the heading line and without tokens of the later section; the
\* example gives exactly ["Mysql", "Python", "React"].
C9_HeadingScopedSkills ==
    SkillsReturned =>
        /\ args = PyStr(SkillsExample) =>
              ret.val = << <<"M","y","s","q","l">>, <<"P","y","t","h","o","n">>, <<"R","e","a","c","t">> >>
        /\ \A d \in SkillDocs : args = PyStr(DocText(d)) => ret.val = ListedSkills(d)

(***************************************************************************)
(* Claims about normalize_text, checked under SpecText                     *)
(***************************************************************************)
\* the maximal runs of non-whitespace characters of s, in text order
WordsOf(s) ==
    LET starts == {i \in DOMAIN s : ~IsSpace(s[i]) /\ (i = 1 \/ IsSpace(s[i - 1]))}
        nth(k) == CHOOSE i \in starts : Cardinality({j \in starts : j < i}) = k - 1
        last(i) == Min({j \in i..Len(s) : j = Len(s) \/ IsSpace(s[j + 1])})
    IN [k \in 1..Cardinality(starts) |-> SubSeq(s, nth(k), last(nth(k)))]

\* C12: normalize_text returns the words of the input separated by single spaces,
\* with no whitespace at either end (so the empty string for empty or all-whitespace
\* input), and normalizing the result again returns it unchanged.
C12_NormalizeText ==
    /\ (op = "normalize_text" /\ pc = "done") =>
          ret = Return(Join(<<" ">>, WordsOf(args.v)))
    /\ (op = "normalize_text" /\ pc = "again") => ret.val = locals.first

\* C12 witness: a text with whitespace at an end and a run of several whitespace
\* characters inside has been normalized twice.
C12_Witness ==
    /\ op = "normalize_text"
    /\ pc = "again"
    /\ Len(WordsOf(args.v)) >= 2
    /\ IsSpace(args.v[1])
    /\ Len(ret.val) + 2 < Len(args.v)

(***************************************************************************)
(* Claims about normalize_skill, checked under SpecSynonyms                *)
(***************************************************************************)
\* C13 (as claimed): normalize_skill maps every canonical key to itself, every alias
\* to the canonical key under which it is listed, and a token that is neither to its
\* trimmed, lowercased form.
C13_SynonymTable ==
    (op = "normalize_skill" /\ pc = "done") =>
        /\ \A k \in DOMAIN SKILL_SYNONYMS :
              /\ args.v = SKILL_SYNONYMS[k].canonical => ret.val = SKILL_SYNONYMS[k].canonical
              /\ args.v \in Range(SKILL_SYNONYMS[k].aliases) => ret.val = SKILL_SYNONYMS[k].canonical
        /\ (\A k \in DOMAIN SKILL_SYNONYMS :
                /\ Strip(Lower(args.v)) # SKILL_SYNONYMS[k].canonical
                /\ Strip(Lower(args.v)) \notin Range(SKILL_SYNONYMS[k].aliases))
           => ret.val = Strip(Lower(args.v))

(***************************************************************************)
(* Claims about the list extract_technical_skills returns, under SpecSkills *)
(***************************************************************************)
\* the list has no entry twice and is in ascending order of code points
StrictlyAscending(l) == \A i \in 1..(Len(l) - 1) : StrLess(l[i], l[i + 1])

\* no character after the first is an upper-case letter
RestLower(e) == \A i \in 2..Len(e) : e[i] \notin UpperSet

\* C14 (as claimed): the returned list has no duplicates, is in ascending order, every
\* entry has an upper-case first character and a lower-case rest, and no entry is
\* shorter than two characters.
C14_FirstUpper ==
    SkillsReturned =>
        /\ StrictlyAscending(ret.val)
        /\ \A i \in DOMAIN ret.val :
              /\ Len(ret.val[i]) >= 2
              /\ ret.val[i][1] \in UpperSet
              /\ RestLower(ret.val[i])

\* C14 (amended): the returned list has no duplicates, is in ascending order, no entry
\* is shorter than two characters, and every entry is in capitalized form: its first
\* character is not a lower-case letter (a letter is upper-cased; a digit, hyphen or
\* underscore stays) and no later character is an upper-case letter.
C14_CapitalizedForm ==
    SkillsReturned =>
        /\ StrictlyAscending(ret.val)
        /\ \A i \in DOMAIN ret.val :
              /\ Len(ret.val[i]) >= 2
              /\ ret.val[i][1] \notin LowerSet
              /\ RestLower(ret.val[i])

\* the text with digit-first items, a repeated item and version-only-short items is
\* processed: "2fa" is returned, "Java" once, and neither "X" nor "R"
C14_Witness ==
    /\ SkillsReturned
    /\ args = PyStr(DigitFirstText)
    /\ <<"2","f","a">> \in Range(ret.val)
    /\ <<"J","a","v","a">> \in Range(ret.val)
    /\ <<"X">> \notin Range(ret.val)
    /\ Len(ret.val) >= 5

(***************************************************************************)
(* Claims about extract_programming_languages, checked under SpecProg      *)
(***************************************************************************)
ProgReturned == op = "extract_programming_languages" /\ pc = "done" /\ ~ret.raised

\* the lowercased text holds "r ", " r," or the characters of "language"
REvidence(text) ==
    \/ Contains(Lower(text), <<"r", " ">>)
    \/ Contains(Lower(text), <<" ", "r", ",">>)
    \/ Contains(Lower(text), <<"l","a","n","g","u","a","g","e">>)

\* C15: "R" is in the result only when the lowercased text contains "r " or " r," or
\* "language"; a text without any of the three never yields "R", wherever the letter
\* r stands in it.
C15_REvidence ==
    ProgReturned => (<<"R">> \in Range(ret.val) => REvidence(args.v))

\* the skills line that names the letter between commas is answered with "R" and
\* the other names
C15_Witness ==
    /\ ProgReturned
    /\ args = PyStr(ProgExample)
    /\ ~Contains(Lower(args.v), <<"r", " ">>)
    /\ ret.val = << <<"C">>, <<"C","+","+">>, <<"J","a","v","a">>, <<"P","y","t","h","o","n">>, <<"R">> >>

(***************************************************************************)
(* Claims about interleaved calls, checked under SpecConcurrent            *)
(***************************************************************************)
\* the outcome of the call run alone
Alone(o, a) ==
    CASE o = "calculate_ats_score" -> calculate_ats_score(a.data, a.text, PyNone).out
      [] o = "normalize_languages" -> normalize_languages(a)
      [] o = "normalize_skill" -> Return(normalize_skill(a.v))
      [] o = "extract_technical_skills" -> extract_technical_skills(a)
      [] o = "extract_programming_languages" -> extract_programming_languages(a)

GuidanceDone == op = "generate_guidance" /\ pc = "done"

\* the reply of a response as parsed by line 435, a raise when there is none
ReplyData(response) ==
    IF response.t = "error" \/ response.choices = <<>> THEN Raise("APIError")
    ELSE IF response.choices[1].content.t # "str" THEN Raise("AttributeError")
    ELSE json_loads(PyStr(Strip(RemoveAll(RemoveAll(Strip(response.choices[1].content.v), <<"BACKTICK","BACKTICK","BACKTICK","j","s","o","n">>), <<"BACKTICK","BACKTICK","BACKTICK">>))))

\* the client is missing, the call raises, the reply is not JSON, is no object, or
\* has no list section with an entry
FallbackCase(a) ==
    \/ ~a.openrouter_client
    \/ ReplyData(a.response).raised
    \/ ReplyData(a.response).val.t # "dict"
    \/ \A k \in Range(list_sections) :
          ~(DictGet(ReplyData(a.response).val, k).t = "list" /\ Truthy(DictGet(ReplyData(a.response).val, k)))

\* C17 (as claimed): for every resume_data and every behaviour of the model,
\* generate_guidance does not raise and returns a dict with exactly the ten guidance
\* keys and at least one non-empty section; in a fallback case the result is the
\* fallback guidance.
C17_GuidanceTotal ==
    GuidanceDone =>
        /\ ~ret.raised
        /\ ret.val.t = "dict"
        /\ DOMAIN ret.val.v = Range(guidance_keys)
        /\ \E k \in Range(guidance_keys) : Truthy(ret.val.v[k])
        /\ FallbackCase(args) => ret = _build_fallback_guidance(args.resume_data)

(***************************************************************************)
(* Claims about certificate evaluation, checked under SpecCerts            *)
(***************************************************************************)
\* the reply of a response as parsed by line 230, a raise when there is none
CertReply(response) ==
    IF response.t = "error" \/ response.choices = <<>> THEN Raise("APIError")
    ELSE IF response.choices[1].content.t # "str" THEN Raise("JSONDecodeError")
    ELSE json_loads(PyStr(Strip(RemoveAll(RemoveAll(Strip(response.choices[1].content.v), <<"BACKTICK","BACKTICK","BACKTICK","j","s","o","n">>), <<"BACKTICK","BACKTICK","BACKTICK">>))))

\* the evaluation fails: no client, no certificate, a call that raises, a reply that
\* is no JSON or is JSON without a list of results
CertFailure(cert_list, openrouter_client, response) ==
    \/ ~openrouter_client
    \/ ~BoolOf(cert_list)
    \/ CertReply(response).raised
    \/ /\ CertReply(response).val.t # "list"
       /\ ~(CertReply(response).val.t = "dict" /\ "results" \in DOMAIN CertReply(response).val.v)

\* C18 (as claimed): evaluate_certificates never raises, whatever the certificate
\* list, and returns [] when the evaluation fails; process_resume_file then goes on
\* past its certificate step without an error, with certificate_analysis = [] when
\* the evaluation fails.
C18_CertificatesNeverFail ==
    /\ (op = "evaluate_certificates" /\ pc = "done") =>
          /\ ~ret.raised
          /\ CertFailure(args.cert_list, args.openrouter_client, args.response) => ret.val = PyList(<<>>)
    /\ (op = "process_resume_file:certificates" /\ pc = "done" /\ args.data.t = "dict") =>
          /\ "error" \notin DOMAIN ret.val
          /\ CertFailure(GetOr(args.data, "certificates", PyList(<<>>)), TRUE, args.response)
                => ret.val.certificate_analysis = PyList(<<>>)

(***************************************************************************)
(* Claims about the account endpoints, checked under SpecAuth              *)
(***************************************************************************)
\* the last request was answered with success
Succeeded(name) == op = name /\ ret.status = 200

\* the passwords the collection stores, as they are stored and as text
StoredPasswords ==
    UNION {{locals.users[i].v["password"], PyStr(locals.users[i].v["password"].v)} :
           i \in {i \in DOMAIN locals.users : "password" \in DOMAIN locals.users[i].v}}

RECURSIVE HoldsPassword(_)
\* x is a stored password, has a key "password", or holds such a value
HoldsPassword(x) ==
    \/ x \in StoredPasswords
    \/ x.t = "dict" /\ ("password" \in DOMAIN x.v \/ \E k \in DOMAIN x.v : HoldsPassword(x.v[k]))
    \/ x.t = "list" /\ \E i \in DOMAIN x.v : HoldsPassword(x.v[i])

\* no successful response of the three endpoints shows a password in "user"
NoPasswordInUser ==
    (\E name \in {"register_user", "set_password", "login_user"} : Succeeded(name))
        => ~HoldsPassword(ret.body.v["user"])

\* the account a successful login was answered for
LoggedIn == locals.users[find_one_regex(locals.users, args.email)]

\* sub, email and role of the token are those of the account
TokenNamesAccount ==
    LET payload == ret.body.v["access_token"].payload.v
    IN /\ payload["sub"] = PyStr(ObjectIdStr(LoggedIn.v["_id"].v))
       /\ payload["email"] = LoggedIn.v["email"]
       /\ payload["role"] = LoggedIn.v["role"]

\* C19 as stated: no successful response of register, set_password or login
\* holds the stored password in its user document, and the payload of the
\* access token holds only the user id, the email and the role.
C19_TokenOnlyIdEmailRole ==
    /\ NoPasswordInUser
    /\ Succeeded("login_user") =>
          /\ DOMAIN ret.body.v["access_token"].payload.v = {"sub", "email", "role"}
          /\ TokenNamesAccount

\* C19 amended: no successful response of register, set_password or login
\* holds the stored password in its user document, and the payload of the
\* access token holds the user id, the email, the role and the expiry time
\* "exp" that create_access_token adds, and nothing else.
C19_NoPasswordDisclosed ==
    /\ NoPasswordInUser
    /\ Succeeded("login_user") =>
          /\ DOMAIN ret.body.v["access_token"].payload.v = {"sub", "email", "role", "exp"}
          /\ TokenNamesAccount
          /\ ret.body.v["access_token"].payload.v["exp"] = expire

\* a login with the password that set_password hashed is answered with a token
C19_Witness ==
    /\ Succeeded("login_user")
    /\ LoggedIn.v["password"] = hashpw(args.password)
    /\ LoggedIn.v["role"] = PyStr(<<"a","d","m","i","n">>)
    /\ Len(locals.users) >= 2

(***************************************************************************)
(* Claims about the users collection, checked under SpecUsers              *)
(***************************************************************************)
\* the email of record i, lower-cased
EmailKey(i) == Lower(locals.users[i].v["email"].v)

\* C20: after any sequence of register, set_password, upload_resume and
\* generate_portfolio calls the users collection holds at most one record per
\* email address compared without regard to letter case.
C20_OneRecordPerEmail ==
    \A i, j \in DOMAIN locals.users : i # j => EmailKey(i) # EmailKey(j)

(***************************************************************************)
(* Claims about the achievement entry, checked under SpecMetrics           *)
(***************************************************************************)
\* index i is the start or the end of the text, or next to a space or a
\* punctuation mark: the character on the outer side is no letter and no digit
ProseEdge(s, i, outer) == outer < 1 \/ outer > Len(s) \/ ~IsWordChar(s[outer])

\* the index after a metric mention N%, $N, N unit or N x/times that is written
\* at index i of the prose, 0 if there is none
MentionEnd(s, i) ==
    LET d == DigitRun(s, i)
        w == SpaceRun(s, i + d)
        d2 == DigitRun(s, i + 1)
        words == {k \in DOMAIN (metric_units \o metric_multipliers) :
                    MatchAt(s, i + d + w, (metric_units \o metric_multipliers)[k])}
    IN IF d > 0 /\ i + d <= Len(s) /\ s[i + d] = "%" THEN i + d + 1
       ELSE IF s[i] = "$" /\ d2 > 0 THEN i + 1 + d2
       ELSE IF d > 0 /\ w > 0 /\ words # {}
            THEN i + d + w + Len((metric_units \o metric_multipliers)[Min(words)])
       ELSE 0

\* M: the metric mentions of the text, each delimited on both sides
MetricMentions(s) ==
    Cardinality({i \in DOMAIN s :
                   /\ MentionEnd(s, i) > 0
                   /\ ProseEdge(s, i, i - 1)
                   /\ ProseEdge(s, i, MentionEnd(s, i))})

\* A: the whole-word occurrences of the action verbs
VerbOccurrences(s) ==
    Cardinality({i \in DOMAIN s :
                   \E k \in DOMAIN action_verbs :
                       /\ MatchAt(s, i, action_verbs[k])
                       /\ ProseEdge(s, i, i - 1)
                       /\ ProseEdge(s, i, i + Len(action_verbs[k]))})

\* C21: the entry 'Action + Achievements' is min(A + 2*M, 20) for A the
\* whole-word occurrences of the action verbs and M the metric mentions N%,
\* N users/clients/projects/years/months, $N and N x/times of the text, each
\* mention written in prose counting once.
C21_AchievementEntry ==
    AtsReturned =>
        ret.val.ats_breakdown["Action + Achievements"] =
            PyMin(Points(VerbOccurrences(Lower(args.text.v)) + 2 * MetricMentions(Lower(args.text.v))), Points(20))

(***************************************************************************)
(* Claims about process_resume_file, checked under SpecProcess             *)
(***************************************************************************)
\* the call has returned the mapping with the data and the score
ProcessSucceeded == op = "process_resume_file" /\ pc = "done" /\ "error" \notin DOMAIN ret.v

\* the call has returned a mapping with an "error" key
ProcessFailed == op = "process_resume_file" /\ pc = "done" /\ "error" \in DOMAIN ret.v

\* the skills block of the record lists a technical, soft or interest skill
SkillsListed(data) ==
    /\ DictGet(data, "skills").t = "dict"
    /\ \E k \in {"technical", "soft", "area_of_interest"} : Truthy(DictGet(DictGet(data, "skills"), k))

\* the section is present in the extracted record
SectionPresent(data, section) ==
    IF section = "skills" THEN SkillsListed(data) ELSE Truthy(DictGet(data, section))

\* C22: in the result of process_resume_file the Section Coverage entry is 5 points
\* for each of experience, education, skills and projects that is present in the
\* extracted record, a skills block that lists no technical, soft or interest
\* skill counting as absent
C22_SectionCoverage ==
    ProcessSucceeded =>
        ret.v["ats_breakdown"]["Section Coverage"]
          = Points(5) * Cardinality({k \in DOMAIN required_sections :
                                       SectionPresent(ret.v["data"], required_sections[k])})

\* the message of the error mapping starts with the prefix
ErrorStartsWith(prefix) ==
    /\ "error" \in DOMAIN ret.v
    /\ Len(ret.v["error"].v) >= Len(prefix)
    /\ SubSeq(ret.v["error"].v, 1, Len(prefix)) = prefix

\* the upload was read and has bytes; the reader found text in it
HasBytes(a) == a.upload_file.read = "bytes"

HasText(a) ==
    /\ HasBytes(a) /\ a.upload_file.pdf.readable
    /\ \E i \in DOMAIN a.upload_file.pdf.pages :
          /\ a.upload_file.pdf.pages[i].t = "str"
          /\ \E j \in DOMAIN a.upload_file.pdf.pages[i].v : ~IsSpace(a.upload_file.pdf.pages[i].v[j])

\* the model was reached and its call failed; it replied with text that is no JSON
ModelCalled(a) == HasText(a) /\ a.openrouter_client

ModelFailed(a) == a.response.t = "error"

Unparseable(a) ==
    /\ a.response.t = "completion" /\ a.response.choices # <<>>
    /\ a.response.choices[1].content.t = "str"
    /\ json_loads(PyStr(unfenced(a.response.choices[1].content.v))).raised

\* C23: a finished call of process_resume_file has returned a mapping with an "error"
\* key or a mapping with exactly the keys data, ats_score, ats_breakdown and
\* word_count; an empty file, a PDF without readable text, a missing client, a
\* failed model call and an unparseable reply give their error, the earlier one
\* of these when several apply
C23_ErrorOrResult ==
    (op = "process_resume_file" /\ pc = "done") =>
        /\ ret.t = "dict"
        /\ "error" \in DOMAIN ret.v \/ DOMAIN ret.v = {"data", "ats_score", "ats_breakdown", "word_count"}
        /\ args.upload_file.read = "empty" =>
              ret = ErrorMapping(<<"E","m","p","t","y"," ","f","i","l","e"," ","r","e","c","e","i","v","e","d","."," ","P","l","e","a","s","e"," ","u","p","l","o","a","d"," ","a"," ","v","a","l","i","d"," ","P","D","F",".">>)
        /\ (HasBytes(args) /\ args.upload_file.pdf.readable /\ ~HasText(args)) =>
              ret = ErrorMapping(<<"N","o"," ","r","e","a","d","a","b","l","e"," ","t","e","x","t"," ","f","o","u","n","d"," ","i","n"," ","t","h","e"," ","u","p","l","o","a","d","e","d"," ","P","D","F",".">>)
        /\ (HasText(args) /\ ~args.openrouter_client) =>
              ret = ErrorMapping(<<"A","I"," ","c","l","i","e","n","t"," ","n","o","t"," ","c","o","n","f","i","g","u","r","e","d"," ","(","m","i","s","s","i","n","g"," ","O","P","E","N","R","O","U","T","E","R","_","A","P","I","_","K","E","Y",")",".">>)
        /\ (ModelCalled(args) /\ ModelFailed(args)) => ErrorStartsWith(<<"A","I"," ","r","e","q","u","e","s","t"," ","f","a","i","l","e","d",":"," ">>)
        /\ (ModelCalled(args) /\ Unparseable(args)) => ErrorStartsWith(<<"F","a","i","l","e","d"," ","t","o"," ","p","a","r","s","e"," ","A","I"," ","J","S","O","N",":"," ">>)

\* a call has returned the error of an unparseable reply
C23_Witness == ProcessFailed /\ ModelCalled(args) /\ Unparseable(args) /\ "raw" \in DOMAIN ret.v

\* C24: a call that returns an error outcome has inserted no record into db.reports;
\* a record is inserted at most once in a call, by the save step as the call
\* returns, when the text is extracted, the reply parsed, the certificates and
\* projects evaluated, the skills cleaned and the score computed
C24_InsertOnlyAtTheEnd ==
    /\ [](ProcessFailed => locals.reports = <<>>)
    /\ [][locals'.reports # locals.reports =>
            /\ pc = "save" /\ pc' = "done"
            /\ locals.reports = <<>> /\ Len(locals'.reports) = 1
            /\ locals.text.t = "str" /\ locals.ats # PyNone
            /\ {"certificate_analysis", "project_analysis", "skills", "languages"} \subseteq DOMAIN locals.data.v
            /\ "technical" \in DOMAIN locals.data.v["skills"].v]_vars

\* a call with a database that can be reached has failed after the evaluation of
\* the projects
C24_Witness ==
    /\ ProcessFailed /\ args.db = "up"
    /\ locals.data.t = "dict" /\ "project_analysis" \in DOMAIN locals.data.v

\* C25: when the insert fails (db is None, or insert_one raises) a call whose score
\* was computed returns the success mapping, with the data, ats_score,
\* ats_breakdown and word_count that the same call returns when the record is
\* inserted
C25_InsertFailureIgnored ==
    (op = "process_resume_file" /\ pc = "done" /\ args.db \in {"none", "down"} /\ locals.ats # PyNone) =>
        /\ ProcessSucceeded
        /\ \A k \in {"data", "ats_score", "ats_breakdown", "word_count"} :
              ret.v[k] = process_resume_file([args EXCEPT !.db = "up"], <<>>).ret.v[k]

\* a call has returned its result although the insert failed
C25_Witness == ProcessSucceeded /\ args.db \in {"none", "down"} /\ locals.reports = <<>>

(***************************************************************************)
(* Claims about the skill clean-up, checked under SpecCleanup              *)
(***************************************************************************)
\* the entries of a field of the reply: the items of a list, the pieces of a str
\* written with commas, semicolons or slashes
EntriesOf(x) ==
    IF x.t = "list" THEN x.v
    ELSE LET cuts == <<0>> \o SelectSeq([i \in 1..Len(x.v) |-> i], LAMBDA i : x.v[i] \in {",", ";", "/"})
                         \o <<Len(x.v) + 1>>
         IN [k \in 1..(Len(cuts) - 1) |-> PyStr(SubSeq(x.v, cuts[k] + 1, cuts[k + 1] - 1))]

\* the text of the entries that are text
TextsOf(entries) == {entries[i].v : i \in {i \in DOMAIN entries : entries[i].t = "str"}}

RECURSIVE IsSubsequence(_, _)
\* xs is ys with some elements left out
IsSubsequence(xs, ys) ==
    IF xs = <<>> THEN TRUE
    ELSE IF ys = <<>> THEN FALSE
    ELSE IF Head(xs) = Head(ys) THEN IsSubsequence(Tail(xs), Tail(ys))
    ELSE IsSubsequence(xs, Tail(ys))

\* the clean-up step has completed
SkillsCleaned == op = "process_resume_file:skills" /\ pc = "done" /\ ~ret.raised

\* the cleaned technical skills, as text
CleanedTechnical ==
    [i \in DOMAIN ret.val.v["skills"].v["technical"].v |-> ret.val.v["skills"].v["technical"].v[i].v]

\* a certificate title of at least as many words as the entry equals, contains or
\* is contained in the entry, ignoring case
NamesCertificate(entry, titles) ==
    \E c \in titles :
        /\ SplitCount(c) >= SplitCount(entry)
        /\ Contains(Lower(c), Lower(entry)) \/ Contains(Lower(entry), Lower(c))

AcceptedAmong(n) ==
    SelectSeq([i \in 1..n |-> i], LAMBDA i : file_outcome(args.files[i], locals.filters).outcome = "accepted")

\* the progress events and the final events sent so far
ProgressEvents == SelectSeq(locals.events, LAMBDA e : "processed" \in DOMAIN e.v)

FinalEvents == SelectSeq(locals.events, LAMBDA e : "done" \in DOMAIN e.v)

\* the events sent when the first n files are handled are one progress event for
\* each accepted file, in upload order, counting from 1 and adding the record of
\* the file to the results of the event before
ProgressFor(n) ==
    /\ Len(ProgressEvents) = Len(AcceptedAmong(n))
    /\ \A k \in DOMAIN ProgressEvents :
          /\ ProgressEvents[k].v["processed"] = k
          /\ ProgressEvents[k].v["latest_filename"].v = args.files[AcceptedAmong(n)[k]].filename
          /\ Len(ProgressEvents[k].v["results_so_far"].v) = k
          /\ ProgressEvents[k].v["results_so_far"].v[k].v["filename"].v = args.files[AcceptedAmong(n)[k]].filename
          /\ k > 1 => SubSeq(ProgressEvents[k].v["results_so_far"].v, 1, k - 1)
                        = ProgressEvents[k - 1].v["results_so_far"].v

\* C27: the stream sends one progress event for each accepted file, in upload
\* order, 'processed' counting up by 1 and 'results_so_far' being the results of
\* the event before plus the record of the file, whatever became of the other
\* files; it ends, with one final event {done: true} after the progress events,
\* whose 'count' is the number of accepted files
C27_EventStream ==
    /\ [](op = "filter_uploaded_resumes_stream" =>
            /\ ProgressFor(locals.i - 1)
            /\ pc = "loop" => locals.events = ProgressEvents
            /\ pc = "done" =>
                  /\ locals.i = Len(args.files) + 1
                  /\ locals.events = Append(ProgressEvents, FinalEvents[1])
                  /\ FinalEvents[1].v["done"] = TRUE
                  /\ FinalEvents[1].v["count"] = Len(AcceptedAmong(Len(args.files)))
                  /\ Len(FinalEvents[1].v["results"].v) = Len(AcceptedAmong(Len(args.files))))
    /\ <>(pc = "done")

\* a stream has ended with the events of the second and third file, after a
\* first file whose read raised
C27_Witness ==
    /\ op = "filter_uploaded_resumes_stream" /\ pc = "done"
    /\ Len(args.files) = 3 /\ args.files[1].read = "raises"
    /\ Len(ProgressEvents) = 2 /\ Len(locals.events) = 3

====
